---- MODULE Spec2Model ----
(***************************************************************************)
(* A model of dbhydro-py: the DbHydroApi facade (src/dbhydro_py/api.py),   *)
(* the Result record the transport hands back and the exception type.      *)
(* Python strings on which the code works character by character (dates,   *)
(* ids, status messages) are sequences of one-character strings; strings   *)
(* that the code only compares against a vocabulary are TLA+ strings.      *)
(***************************************************************************)
EXTENDS Integers, Sequences, FiniteSets, TLC

VARIABLES self, call, nCalls, transportGets, repeat

vars == <<self, call, nCalls, transportGets, repeat>>

-----------------------------------------------------------------------------
(* Bounds *)

\* Facade invocations explored in one behaviour of Spec.
MaxCalls == 2

\* Facade invocations explored in one behaviour of SpecResponses.
MaxResponseCalls == 1

\* Facade invocations explored in one behaviour of SpecArguments.
MaxArgumentCalls == 1

-----------------------------------------------------------------------------
(* Python str operations on character sequences *)

DigitChars == <<"0", "1", "2", "3", "4", "5", "6", "7", "8", "9">>

UpperChars == <<"A", "B", "C", "D", "E", "F", "G", "H", "I", "J", "K", "L", "M",
                "N", "O", "P", "Q", "R", "S", "T", "U", "V", "W", "X", "Y", "Z">>

LowerChars == <<"a", "b", "c", "d", "e", "f", "g", "h", "i", "j", "k", "l", "m",
                "n", "o", "p", "q", "r", "s", "t", "u", "v", "w", "x", "y", "z">>

IsDigit(c) == \E i \in 1..10 : DigitChars[i] = c

DigitVal(c) == (CHOOSE i \in 1..10 : DigitChars[i] = c) - 1

AllDigits(s) == \A i \in 1..Len(s) : IsDigit(s[i])

RECURSIVE ToInt(_)
\* int(s) for a non-empty string of decimal digits
ToInt(s) ==
    IF Len(s) = 0 THEN 0
    ELSE 10 * ToInt(SubSeq(s, 1, Len(s) - 1)) + DigitVal(s[Len(s)])

RECURSIVE NatToStr(_)
NatToStr(n) ==
    IF n < 10 THEN <<DigitChars[n + 1]>>
    ELSE NatToStr(n \div 10) \o <<DigitChars[(n % 10) + 1]>>

\* str(n) for an int
IntToStr(n) == IF n < 0 THEN <<"-">> \o NatToStr(0 - n) ELSE NatToStr(n)

RECURSIVE ZeroPad(_, _)
\* zero padding to a minimum width, as strftime pads a numeric field
ZeroPad(s, width) == IF Len(s) >= width THEN s ELSE ZeroPad(<<"0">> \o s, width)

RECURSIVE lstrip(_)
lstrip(s) ==
    IF Len(s) > 0 /\ s[1] \in {" ", "\t", "\n"} THEN lstrip(Tail(s)) ELSE s

RECURSIVE rstrip(_)
rstrip(s) ==
    IF Len(s) > 0 /\ s[Len(s)] \in {" ", "\t", "\n"}
    THEN rstrip(SubSeq(s, 1, Len(s) - 1))
    ELSE s

\* str.strip()
strip(s) == rstrip(lstrip(s))

\* str.count(c) for a one-character c
count(s, c) == Cardinality({i \in 1..Len(s) : s[i] = c})

\* c in s, for a one-character c
HasChar(s, c) == \E i \in 1..Len(s) : s[i] = c

\* date_part + time_part after s.split(c, 1): s without its first c
RemoveFirst(s, c) ==
    LET i == CHOOSE i \in 1..Len(s) : s[i] = c /\ \A j \in 1..(i - 1) : s[j] # c
    IN  SubSeq(s, 1, i - 1) \o SubSeq(s, i + 1, Len(s))

\* sub in s
HasSubstring(s, sub) ==
    \/ Len(sub) = 0
    \/ \E i \in 1..(Len(s) - Len(sub) + 1) : SubSeq(s, i, i + Len(sub) - 1) = sub

LowerChar(c) ==
    IF \E i \in 1..26 : UpperChars[i] = c
    THEN LowerChars[CHOOSE i \in 1..26 : UpperChars[i] = c]
    ELSE c

\* str.lower()
\* a comparison that forgets to fold the case
KeepCase(s) == s

lower(s) == [i \in 1..Len(s) |-> LowerChar(s[i])]

RECURSIVE join(_, _)
\* sep.join(strs) for a sequence of strings
join(sep, strs) ==
    IF Len(strs) = 0 THEN <<>>
    ELSE IF Len(strs) = 1 THEN strs[1]
    ELSE strs[1] \o sep \o join(sep, Tail(strs))

-----------------------------------------------------------------------------
(* Python values.  Every value is a record of the same shape; t is the     *)
(* type, n the number of an int (a float is n + 1/2), s the characters of  *)
(* a str, w a vocabulary word, dt the fields of a datetime, items the      *)
(* elements of a list.                                                      *)

PyNone == [t |-> "none", n |-> 0, s |-> <<>>, w |-> "", dt |-> <<>>, items |-> <<>>]

PyInt(i) == [t |-> "int", n |-> i, s |-> <<>>, w |-> "", dt |-> <<>>, items |-> <<>>]

PyFloat(i) == [t |-> "float", n |-> i, s |-> <<>>, w |-> "", dt |-> <<>>, items |-> <<>>]

PyStr(chars) == [t |-> "str", n |-> 0, s |-> chars, w |-> "", dt |-> <<>>, items |-> <<>>]

PyWord(word) == [t |-> "word", n |-> 0, s |-> <<>>, w |-> word, dt |-> <<>>, items |-> <<>>]

PyDatetime(y, mo, d, h, mi, sec, us) ==
    [t |-> "datetime", n |-> 0, s |-> <<>>, w |-> "",
     dt |-> <<y, mo, d, h, mi, sec, us>>, items |-> <<>>]

PyList(elems) == [t |-> "list", n |-> 0, s |-> <<>>, w |-> "", dt |-> <<>>, items |-> elems]

\* a key that a dict does not hold
Absent == [t |-> "absent", n |-> 0, s |-> <<>>, w |-> "", dt |-> <<>>, items |-> <<>>]

\* bool(v)
Truthy(v) ==
    CASE v.t = "none" -> FALSE
      [] v.t = "absent" -> FALSE
      [] v.t = "int" -> v.n # 0
      [] v.t = "float" -> TRUE
      [] v.t = "str" -> Len(v.s) > 0
      [] v.t = "word" -> v.w # ""
      [] v.t \in {"list", "set", "dict"} -> Len(v.items) > 0
      [] OTHER -> TRUE

\* str(v), as the f-strings and str() of the facade render a value
str(v) ==
    CASE v.t = "str" -> v.s
      [] v.t = "int" -> IntToStr(v.n)
      [] v.t = "float" -> IntToStr(v.n) \o <<".", "5">>
      [] OTHER -> <<"N", "o", "n", "e">>

\* isinstance(v, str) and v.strip() is non-empty
IsNonBlankStr(v) == v.t = "str" /\ Len(strip(v.s)) > 0

-----------------------------------------------------------------------------
(* Results of operations that may raise: exc is "none" on a normal return   *)
(* and the exception class otherwise; why identifies the message.           *)

Ok(v) == [exc |-> "none", why |-> "", value |-> v]

Raise(e, reason) == [exc |-> e, why |-> reason, value |-> <<>>]

-----------------------------------------------------------------------------
(* datetime.strftime and datetime.strptime for '%Y-%m-%d%H:%M:%S:%f'        *)

\* date_input.strftime('%Y-%m-%d%H:%M:%S:%f')
strftime(dt) ==
    ZeroPad(NatToStr(dt[1]), 4) \o <<"-">> \o ZeroPad(NatToStr(dt[2]), 2) \o <<"-">>
        \o ZeroPad(NatToStr(dt[3]), 2) \o ZeroPad(NatToStr(dt[4]), 2) \o <<":">>
        \o ZeroPad(NatToStr(dt[5]), 2) \o <<":">> \o ZeroPad(NatToStr(dt[6]), 2)
        \o <<":">> \o ZeroPad(NatToStr(dt[7]), 6)

\* %m : 1[0-2]|0[1-9]|[1-9]
IsMonthField(f) ==
    \/ Len(f) = 2 /\ f[1] = "1" /\ f[2] \in {"0", "1", "2"}
    \/ Len(f) = 2 /\ f[1] = "0" /\ IsDigit(f[2]) /\ f[2] # "0"
    \/ Len(f) = 1 /\ IsDigit(f[1]) /\ f[1] # "0"

\* %d : 3[0-1]|[1-2]\d|0[1-9]|[1-9]| [1-9], the alternative alt of the five
IsDayField(f, alt) ==
    CASE alt = 1 -> Len(f) = 2 /\ f[1] = "3" /\ f[2] \in {"0", "1"}
      [] alt = 2 -> Len(f) = 2 /\ f[1] \in {"1", "2"} /\ IsDigit(f[2])
      [] alt = 3 -> Len(f) = 2 /\ f[1] = "0" /\ IsDigit(f[2]) /\ f[2] # "0"
      [] alt = 4 -> Len(f) = 1 /\ IsDigit(f[1]) /\ f[1] # "0"
      [] OTHER -> Len(f) = 2 /\ f[1] = " " /\ IsDigit(f[2]) /\ f[2] # "0"

\* %H : 2[0-3]|[0-1]\d|\d
IsHourField(f) ==
    \/ Len(f) = 2 /\ f[1] = "2" /\ f[2] \in {"0", "1", "2", "3"}
    \/ Len(f) = 2 /\ f[1] \in {"0", "1"} /\ IsDigit(f[2])
    \/ Len(f) = 1 /\ IsDigit(f[1])

\* %M : [0-5]\d|\d
IsMinuteField(f) ==
    \/ Len(f) = 2 /\ f[1] \in {"0", "1", "2", "3", "4", "5"} /\ IsDigit(f[2])
    \/ Len(f) = 1 /\ IsDigit(f[1])

\* %S : 6[0-1]|[0-5]\d|\d
IsSecondField(f) ==
    \/ Len(f) = 2 /\ f[1] = "6" /\ f[2] \in {"0", "1"}
    \/ IsMinuteField(f)

\* %f : [0-9]{1,6}
IsFractionField(f) == Len(f) \in 1..6 /\ AllDigits(f)

\* The day and hour fields are adjacent in the format: the length of the day
\* field that the regular expression settles on, trying the alternatives of
\* %d in their order (0 when the run of characters matches none).
DayLength(run) ==
    LET fits(k) == k < Len(run) /\ IsHourField(SubSeq(run, k + 1, Len(run)))
    IN  IF fits(2) /\ \E alt \in 1..3 : IsDayField(SubSeq(run, 1, 2), alt) THEN 2
        ELSE IF fits(1) /\ IsDayField(SubSeq(run, 1, 1), 4) THEN 1
        ELSE IF fits(2) /\ IsDayField(SubSeq(run, 1, 2), 5) THEN 2
        ELSE 0

DaysInMonth(y, m) ==
    IF m = 2 THEN (IF (y % 4 = 0 /\ y % 100 # 0) \/ y % 400 = 0 THEN 29 ELSE 28)
    ELSE IF m \in {4, 6, 9, 11} THEN 30 ELSE 31

RECURSIVE RightPad(_, _)
\* the %f field is padded with zeros on the right to six digits
RightPad(s, width) == IF Len(s) >= width THEN s ELSE RightPad(s \o <<"0">>, width)

\* The positions of the separators of a string matched against the format;
\* 0 stands for a separator that is missing.
SeparatorAfter(s, from, c) ==
    IF \E i \in from..Len(s) : s[i] = c
    THEN CHOOSE i \in from..Len(s) : s[i] = c /\ \A j \in from..(i - 1) : s[j] # c
    ELSE 0

\* The datetime that strptime builds from the matched fields; constructing
\* it raises ValueError for year 0, a day the month does not have or second 60.
MakeDatetime(year, month, day, hour, minute, second, micro) ==
    IF year < 1 \/ day > DaysInMonth(year, month) \/ second > 59
    THEN Raise("ValueError", "strptime")
    ELSE Ok(<<year, month, day, hour, minute, second, micro>>)

\* The fields of a string whose separators are at p1..p5, the day field
\* being the first k characters of the run between the date and the time.
MatchFields(Y, m, run, M, S, f, k) ==
    IF \/ ~AllDigits(Y) \/ ~IsMonthField(m) \/ k = 0
       \/ ~IsMinuteField(M) \/ ~IsSecondField(S) \/ ~IsFractionField(f)
    THEN Raise("ValueError", "strptime")
    ELSE MakeDatetime(ToInt(Y), ToInt(m), ToInt(lstrip(SubSeq(run, 1, k))),
                      ToInt(SubSeq(run, k + 1, Len(run))), ToInt(M), ToInt(S),
                      ToInt(RightPad(f, 6)))

\* The fields of s between its separators: p[1] is the '-' after the year,
\* p[2] the '-' after the month, p[3..5] the ':' before minute, second and
\* fraction; a position 0 says that the separator is missing.
SplitFields(s, p) ==
    IF p[5] = 0 THEN Raise("ValueError", "strptime")
    ELSE MatchFields(SubSeq(s, 1, 4), SubSeq(s, p[1] + 1, p[2] - 1),
                     SubSeq(s, p[2] + 1, p[3] - 1), SubSeq(s, p[3] + 1, p[4] - 1),
                     SubSeq(s, p[4] + 1, p[5] - 1), SubSeq(s, p[5] + 1, Len(s)),
                     DayLength(SubSeq(s, p[2] + 1, p[3] - 1)))

RECURSIVE Separators(_, _, _)
\* the positions found so far, extended by the next of the separators cs,
\* each looked for behind the one before it
Separators(s, found, cs) ==
    IF Len(cs) = 0 THEN found
    ELSE Separators(s,
                    Append(found,
                           IF found[Len(found)] = 0 THEN 0
                           ELSE SeparatorAfter(s, found[Len(found)] + 1, Head(cs))),
                    Tail(cs))

\* datetime.strptime(s, '%Y-%m-%d%H:%M:%S:%f'): the datetime fields, or
\* ValueError when s does not match the format or names no valid datetime.
\* The four-digit year is followed by '-', the month runs to the next '-',
\* day and hour to the next ':', minute and second each to the next ':'.
strptime(s) ==
    SplitFields(s, Separators(s, <<IF Len(s) >= 5 /\ s[5] = "-" THEN 5 ELSE 0>>,
                              <<"-", ":", ":", ":">>))

RECURSIVE Later(_, _)
\* a > b for two datetimes, field by field
Later(a, b) ==
    IF Len(a) = 0 THEN FALSE
    ELSE IF a[1] # b[1] THEN a[1] > b[1]
    ELSE Later(Tail(a), Tail(b))

-----------------------------------------------------------------------------
(* DbHydroApi: date normalisation and validation helpers                    *)

\* _parse_date, lines 172-202: the time of date_str is completed according
\* to the colons after its first ten characters.
CompleteTime(date_str) ==
    IF Len(date_str) > 10
    THEN IF count(SubSeq(date_str, 11, Len(date_str)), ":") = 3 THEN Ok(date_str)
         ELSE IF count(SubSeq(date_str, 11, Len(date_str)), ":") = 2
              THEN Ok(date_str \o <<":", "0", "0", "0">>)
         ELSE IF count(SubSeq(date_str, 11, Len(date_str)), ":") = 1
              THEN Ok(date_str \o <<":", "0", "0", ":", "0", "0", "0">>)
              ELSE Ok(date_str \o <<":", "0", "0", ":", "0", "0", ":", "0", "0", "0">>)
    ELSE IF Len(date_str) = 10 /\ count(date_str, "-") = 2
         THEN Ok(date_str \o <<"0", "0", ":", "0", "0", ":", "0", "0", ":", "0", "0", "0">>)
         ELSE Raise("ValueError", "Invalid date format")

\* _parse_date, lines 162-170: the separator between date and time is removed
RemoveSeparator(date_str) ==
    IF HasChar(date_str, "T") THEN CompleteTime(RemoveFirst(date_str, "T"))
    ELSE IF HasChar(date_str, " ") /\ Len(date_str) > 10
         THEN CompleteTime(RemoveFirst(date_str, " "))
         ELSE CompleteTime(date_str)

\* DbHydroApi._parse_date
_parse_date(date_input) ==
    IF date_input.t = "datetime"
    THEN Ok(SubSeq(strftime(date_input.dt), 1, Len(strftime(date_input.dt)) - 3))
    ELSE RemoveSeparator(strip(str(date_input)))

\* _handle_date_parameters, lines 215-219: the range check on the two
\* canonical strings and the datetimes parsed back from them
ValidateRange(datetime_start, datetime_end, parsed_start, parsed_end) ==
    IF parsed_start.exc # "none" THEN parsed_start
    ELSE IF parsed_end.exc # "none" THEN parsed_end
    ELSE IF Later(parsed_start.value, parsed_end.value)
         THEN Raise("ValueError", "date_start must be earlier or equal to date_end")
         ELSE Ok(<<datetime_start, datetime_end>>)

ParseRange(datetime_start, datetime_end) ==
    IF datetime_start.exc # "none" THEN datetime_start
    ELSE IF datetime_end.exc # "none" THEN datetime_end
    ELSE ValidateRange(datetime_start.value, datetime_end.value,
                       strptime(datetime_start.value), strptime(datetime_end.value))

\* DbHydroApi._handle_date_parameters
_handle_date_parameters(date_start, date_end) ==
    ParseRange(_parse_date(date_start), _parse_date(date_end))

\* a _validate_calculation_parameters that takes zero for a timespan_value
_validate_calculation_parameters_accepting_zero(calculation, timespan_unit, timespan_value, valid_calculations, valid_timespan_units) ==
    IF calculation.t = "none" /\ timespan_unit.t # "none"
    THEN Raise("ValueError", "If 'calculation' is None, 'timespan_unit' must also be None.")
    ELSE IF calculation.t # "none" /\ calculation.w \notin valid_calculations
    THEN Raise("ValueError", "Invalid calculation type")
    ELSE IF calculation.t # "none" /\ timespan_unit.t = "none"
    THEN Raise("ValueError", "If 'calculation' is provided, 'timespan_unit' must also be provided.")
    ELSE IF calculation.t # "none" /\ timespan_unit.w \notin valid_timespan_units
    THEN Raise("ValueError", "Invalid timespan_unit")
    ELSE IF timespan_value.t # "none" /\ timespan_value.t # "int"
    THEN Raise("ValueError", "Invalid timespan_value")
    ELSE IF timespan_value.t = "int" /\ timespan_value.n < 0
    THEN Raise("ValueError", "Invalid timespan_value")
    ELSE Ok(<<>>)

\* DbHydroApi._validate_calculation_parameters; calculation and timespan_unit
\* are words or None, timespan_value any value.
_validate_calculation_parameters(calculation, timespan_unit, timespan_value, valid_calculations, valid_timespan_units) ==
    IF calculation.t = "none" /\ timespan_unit.t # "none"
    THEN Raise("ValueError", "If 'calculation' is None, 'timespan_unit' must also be None.")
    ELSE IF calculation.t # "none" /\ calculation.w \notin valid_calculations
    THEN Raise("ValueError", "Invalid calculation type")
    ELSE IF calculation.t # "none" /\ timespan_unit.t = "none"
    THEN Raise("ValueError", "If 'calculation' is provided, 'timespan_unit' must also be provided.")
    ELSE IF calculation.t # "none" /\ timespan_unit.w \notin valid_timespan_units
    THEN Raise("ValueError", "Invalid timespan_unit")
    ELSE IF timespan_value.t # "none" /\ timespan_value.t # "int"
    THEN Raise("ValueError", "Invalid timespan_value")
    ELSE IF timespan_value.t = "int" /\ timespan_value.n <= 0
    THEN Raise("ValueError", "Invalid timespan_value")
    ELSE Ok(<<>>)

DefaultCalculations == {"MEAN", "MAX", "MIN", "SUM"}

DefaultTimespanUnits == {"YEAR", "MONTH", "WEEK", "DAY", "HOUR", "MINUTE", "SECOND"}

-----------------------------------------------------------------------------
(* The decoded JSON body of a response.  A body is null, a list or a        *)
(* mapping; a mapping is the sequence of its entries in iteration order.    *)
(* The value of a top-level entry is null, a string or a mapping that may   *)
(* hold a 'status' entry; a status is null, a string or a mapping with      *)
(* optional statusCode, statusMessage and elapsedTime.                      *)

StatusAbsent == [t |-> "absent", statusCode |-> Absent, statusMessage |-> Absent,
                 elapsedTime |-> Absent]

StatusNull == [t |-> "none", statusCode |-> Absent, statusMessage |-> Absent,
               elapsedTime |-> Absent]

StatusText == [t |-> "str", statusCode |-> Absent, statusMessage |-> Absent,
               elapsedTime |-> Absent]

StatusDict(code, message, elapsed) ==
    [t |-> "dict", statusCode |-> code, statusMessage |-> message, elapsedTime |-> elapsed]

TopNull == [t |-> "none", status |-> StatusAbsent]

TopText == [t |-> "str", status |-> StatusAbsent]

TopDict(status) == [t |-> "dict", status |-> status]

NullBody == [t |-> "none", entries |-> <<>>]

ListBody == [t |-> "list", entries |-> <<>>]

DictBody(entries) == [t |-> "dict", entries |-> entries]

\* d.get(key, default); d.get(key) has the default None
GetOr(v, default) == IF v.t = "absent" THEN default ELSE v

\* response_data.get(key, {}) on a body that is a mapping
BodyGet(data, key) ==
    IF \E i \in 1..Len(data.entries) : data.entries[i].k = key
    THEN data.entries[CHOOSE i \in 1..Len(data.entries) : data.entries[i].k = key].v
    ELSE TopDict(StatusAbsent)

\* models.transport.Result
Result(status_code, message, data) ==
    [status_code |-> status_code, message |-> message, data |-> data]

-----------------------------------------------------------------------------
(* What the caller of a facade method observes: a normal return or an       *)
(* exception with the attributes of DbHydroException.                       *)

Returned ==
    [kind |-> "return", why |-> "", message |-> <<>>, http_status_code |-> PyNone,
     api_status_code |-> PyNone, api_status_message |-> PyNone, elapsed_time |-> PyNone]

\* an exception other than DbHydroException
Raised(kind, reason) ==
    [kind |-> kind, why |-> reason, message |-> <<>>, http_status_code |-> PyNone,
     api_status_code |-> PyNone, api_status_message |-> PyNone, elapsed_time |-> PyNone]

\* exceptions.DbHydroException.__init__
DbHydroException(message, http_status_code, api_status_code, api_status_message, elapsed_time) ==
    [kind |-> "DbHydroException", why |-> "", message |-> message,
     http_status_code |-> http_status_code, api_status_code |-> api_status_code,
     api_status_message |-> api_status_message, elapsed_time |-> elapsed_time]

-----------------------------------------------------------------------------
(* DbHydroApi: Service-level error detection                                *)

NoApiError == [found |-> FALSE, message |-> PyNone, status_code |-> PyNone,
               elapsed_time |-> PyNone]

ApiError(status, status_code, status_message) ==
    [found |-> TRUE, message |-> status_message, status_code |-> status_code,
     elapsed_time |-> GetOr(status.elapsedTime, PyNone)]

RECURSIVE ScanEntries(_, _)
\* The loop of _extract_api_error from entry i on.  An AttributeError or
\* TypeError raised inside the loop is caught around the whole loop, so it
\* ends the scan with None.
ScanEntries(entries, i) ==
    IF i > Len(entries) THEN NoApiError
    ELSE LET value == entries[i].v
         IN  IF value.t = "dict" /\ value.status.t = "dict"
             THEN LET status == value.status
                      status_code == GetOr(status.statusCode, PyNone)
                      status_message == GetOr(status.statusMessage, PyStr(<<>>))
                  IN  IF Truthy(status_code) /\ status_code.t \notin {"int", "float"}
                      THEN NoApiError
                      ELSE IF Truthy(status_code) /\ (status_code.n < 200 \/ status_code.n >= 300)
                      THEN ApiError(status, status_code, status_message)
                      ELSE IF status_message.t # "str"
                      THEN NoApiError
                      ELSE IF HasSubstring(lower(status_message.s), <<"e", "r", "r", "o", "r">>)
                      THEN ApiError(status, status_code, status_message)
                      ELSE ScanEntries(entries, i + 1)
             ELSE ScanEntries(entries, i + 1)

\* DbHydroApi._extract_api_error; a body that is no mapping has no items()
\* and the AttributeError is caught.
_extract_api_error(response_data) ==
    IF response_data.t # "dict" THEN NoApiError
    ELSE ScanEntries(response_data.entries, 1)

\* an HTTP check that takes only the 4xx and 5xx codes for failures
RaiseForClientOrServerError(api_error, http_status_code) ==
    IF api_error.found
    THEN DbHydroException(
             <<"A", "P", "I", " ", "r", "e", "q", "u", "e", "s", "t", " ",
               "f", "a", "i", "l", "e", "d", ":", " ">> \o str(api_error.message),
             PyInt(http_status_code), api_error.status_code, api_error.message,
             api_error.elapsed_time)
    ELSE IF http_status_code >= 400
    THEN DbHydroException(
             <<"H", "T", "T", "P", " ", "r", "e", "q", "u", "e", "s", "t", " ",
               "f", "a", "i", "l", "e", "d", " ", "w", "i", "t", "h", " ",
               "s", "t", "a", "t", "u", "s", " ">> \o IntToStr(http_status_code),
             PyInt(http_status_code), PyNone, PyNone, PyNone)
    ELSE Returned

\* _check_api_response, lines 78-92, with the error that was extracted
RaiseForError(api_error, http_status_code) ==
    IF api_error.found
    THEN DbHydroException(
             <<"A", "P", "I", " ", "r", "e", "q", "u", "e", "s", "t", " ",
               "f", "a", "i", "l", "e", "d", ":", " ">> \o str(api_error.message),
             PyInt(http_status_code), api_error.status_code, api_error.message,
             api_error.elapsed_time)
    ELSE IF http_status_code < 200 \/ http_status_code >= 300
    THEN DbHydroException(
             <<"H", "T", "T", "P", " ", "r", "e", "q", "u", "e", "s", "t", " ",
               "f", "a", "i", "l", "e", "d", " ", "w", "i", "t", "h", " ",
               "s", "t", "a", "t", "u", "s", " ">> \o IntToStr(http_status_code),
             PyInt(http_status_code), PyNone, PyNone, PyNone)
    ELSE Returned

\* DbHydroApi._check_api_response: the exception it raises, or Returned
_check_api_response(response_data, http_status_code) ==
    RaiseForError(_extract_api_error(response_data), http_status_code)

-----------------------------------------------------------------------------
(* DbHydroApi: request execution.  The transport is the environment: a      *)
(* facade method that reaches _perform_request hands it one GET, and the    *)
(* Result the transport hands back is an input of the step.                 *)

NoRequest == [sent |-> FALSE]

NoResult == [received |-> FALSE]

LibraryVersion == "unknown"

\* the headers _perform_request builds
Headers == ("User-Agent" :> <<"dbhydro-py/", LibraryVersion>>)

\* one call of rest_adapter.get(endpoint, params, headers)
GetRequest(full_url, params) ==
    [sent |-> TRUE, endpoint |-> full_url, params |-> params, headers |-> Headers]

\* What a facade method has done when it ends: the GETs it issued, the
\* request of its GET, whether it warned, and what its caller observes.
Completed(gets, request, warned, outcome) ==
    [gets |-> gets, request |-> request, warned |-> warned, outcome |-> outcome]

\* a facade method that raises during validation
Rejected(exception) == Completed(0, NoRequest, FALSE, exception)

\* a _perform_request that sends the GET again after a network failure
_perform_request_retrying(full_url, params, result) ==
    IF result.status_code = 0
    THEN Completed(2, GetRequest(full_url, params), FALSE,
                   DbHydroException(result.message, PyNone, PyNone, PyNone, PyNone))
    ELSE Completed(1, GetRequest(full_url, params), FALSE,
                   _check_api_response(result.data, result.status_code))

\* a _perform_request that looks for a Service error before the sentinel
_perform_request_inspecting_data(full_url, params, result) ==
    IF _extract_api_error(result.data).found
    THEN Completed(1, GetRequest(full_url, params), FALSE,
                   _check_api_response(result.data, result.status_code))
    ELSE IF result.status_code = 0
    THEN Completed(1, GetRequest(full_url, params), FALSE,
                   DbHydroException(result.message, PyNone, PyNone, PyNone, PyNone))
    ELSE Completed(1, GetRequest(full_url, params), FALSE,
                   _check_api_response(result.data, result.status_code))

\* a _perform_request that answers a repeated request from the previous call
_perform_request_cached(full_url, params, result) ==
    IF call.gets > 0 /\ call.request = GetRequest(full_url, params)
    THEN Completed(0, call.request, FALSE, call.outcome)
    ELSE IF result.status_code = 0
    THEN Completed(1, GetRequest(full_url, params), FALSE,
                   DbHydroException(result.message, PyNone, PyNone, PyNone, PyNone))
    ELSE Completed(1, GetRequest(full_url, params), FALSE,
                   _check_api_response(result.data, result.status_code))

\* DbHydroApi._perform_request with the Result that its GET returns
_perform_request(full_url, params, result) ==
    LET request == GetRequest(full_url, params)
    IN  IF result.status_code = 0
        THEN Completed(1, request, FALSE,
                       DbHydroException(result.message, PyNone, PyNone, PyNone, PyNone))
        ELSE Completed(1, request, FALSE,
                       _check_api_response(result.data, result.status_code))

\* f'{self.base_url}{endpoint}'
FullUrl(endpoint) == [base_url |-> self.base_url, endpoint |-> endpoint]

\* the credential and format parameters that every request carries
CommonParams ==
    "client_id" :> self._client_id @@ "client_secret" :> self._client_secret
        @@ "format" :> PyWord("json")

-----------------------------------------------------------------------------
(* Response construction, as far as it can fail on the envelope of a body:  *)
(* .get on a value that is no mapping raises AttributeError.                *)

\* TimeSeriesResponse.from_dict on the value under 'timeSeriesResponse'; the
\* status field is built by dataclass_from_dict(Status, value) unless it is
\* missing or null.
TimeSeriesResponse_from_dict(data) ==
    IF data.t # "dict" THEN Raised("AttributeError", "get")
    ELSE IF data.status.t \notin {"absent", "none", "dict"}
    THEN Raised("AttributeError", "get")
    ELSE Returned

\* PointResponse.from_dict on the value under 'pointResponse'
PointResponse_from_dict(data) ==
    IF data.t # "dict" THEN Raised("AttributeError", "get")
    ELSE IF data.status.t \notin {"absent", "none", "dict"}
    THEN Raised("AttributeError", "get")
    ELSE Returned

\* dataclass_from_dict(PeriodOfRecord, por_data)
PeriodOfRecord_from_dict(data) ==
    IF data.t # "dict" THEN Raised("AttributeError", "get") ELSE Returned

\* AggregateResponse.from_dict, InterpolateResponse.from_dict and
\* SynchronizeResponse.from_dict work on the whole body.
BodyResponse_from_dict(response_data) ==
    IF response_data.t # "dict" THEN Raised("AttributeError", "get") ELSE Returned

\* the lines of a facade method after _perform_request: nothing more happens
\* if it raised, else response_data.get(key, {}) is taken from the body it
\* returned and built is what the from_dict constructor makes of it
Respond(done, response_data, built) ==
    IF done.outcome.kind # "return" THEN done
    ELSE IF response_data.t # "dict"
    THEN [done EXCEPT !.outcome = Raised("AttributeError", "get")]
    ELSE [done EXCEPT !.outcome = built]

RespondBody(done, response_data) ==
    IF done.outcome.kind # "return" THEN done
    ELSE [done EXCEPT !.outcome = BodyResponse_from_dict(response_data)]

-----------------------------------------------------------------------------
(* DbHydroApi: the facade methods.  Each takes the arguments of the Python  *)
(* method and the Result the transport returns if it is called.             *)

\* the elements a for loop over v visits: those of a list or set, the keys of
\* a dict, the characters of a str
Elements(v) ==
    IF v.t = "str" THEN [i \in 1..Len(v.s) |-> PyStr(<<v.s[i]>>)] ELSE v.items

HasBadElement(v) == \E i \in 1..Len(Elements(v)) : ~IsNonBlankStr(Elements(v)[i])

\* the exception of the loop over the elements: it names the first element
\* that is no non-blank string
InvalidElement(v) ==
    [Raise("ValueError", "invalid element") EXCEPT
         !.value = str(Elements(v)[CHOOSE i \in 1..Len(Elements(v)) :
                                       /\ ~IsNonBlankStr(Elements(v)[i])
                                       /\ \A j \in 1..(i - 1) : IsNonBlankStr(Elements(v)[j])])]

\* an element check that lets whitespace-only strings pass
CheckIdList_accepting_blank(ids) ==
    IF ~Truthy(ids) THEN Raise("ValueError", "cannot be empty")
    ELSE IF ids.t \notin {"list", "str", "set", "dict"} THEN Raise("TypeError", "not iterable")
    ELSE IF \E i \in 1..Len(Elements(ids)) :
                Elements(ids)[i].t # "str" \/ Len(Elements(ids)[i].s) = 0
    THEN InvalidElement(ids)
    ELSE Ok(<<>>)

\* `if not ids: raise ValueError` followed by the loop over the elements
CheckIdList(ids) ==
    IF ~Truthy(ids) THEN Raise("ValueError", "cannot be empty")
    ELSE IF ids.t \notin {"list", "str", "set", "dict"} THEN Raise("TypeError", "not iterable")
    ELSE IF HasBadElement(ids) THEN InvalidElement(ids)
    ELSE Ok(<<>>)

\* `if len(ids) == 0: raise ValueError` followed by the loop over the elements
CheckSizedIdList(ids) ==
    IF ids.t \notin {"list", "str", "set", "dict"} THEN Raise("TypeError", "no len")
    ELSE IF Len(Elements(ids)) = 0 THEN Raise("ValueError", "at least one")
    ELSE IF HasBadElement(ids) THEN InvalidElement(ids)
    ELSE Ok(<<>>)

\* ','.join(ids)
JoinIds(ids) == PyStr(join(<<",">>, [i \in 1..Len(Elements(ids)) |-> Elements(ids)[i].s]))

\* the exception r leaves the method; value is the element its message names
Fail(r) == Rejected([Raised(r.exc, r.why) EXCEPT !.message = r.value])

get_time_series(site_ids, date_start, date_end, calculation, timespan_unit, timespan_value, result) ==
    LET ids == CheckIdList(site_ids)
        dates == _handle_date_parameters(date_start, date_end)
        calc == _validate_calculation_parameters(calculation, timespan_unit,
                    timespan_value, DefaultCalculations, DefaultTimespanUnits)
    IN  IF ids.exc # "none" THEN Fail(ids)
        ELSE IF dates.exc # "none" THEN Fail(dates)
        ELSE IF calc.exc # "none" THEN Fail(calc)
        ELSE LET params ==
                     "names" :> JoinIds(site_ids)
                         @@ "beginDateTime" :> PyStr(dates.value[1])
                         @@ "endDateTime" :> PyStr(dates.value[2])
                         @@ "calculation" :> calculation
                         @@ "timespanUnit" :> timespan_unit
                         @@ "timespanValue" :> timespan_value
                         @@ CommonParams
             IN  Respond(_perform_request(FullUrl("timeseries"), params, result),
                         result.data,
                TimeSeriesResponse_from_dict(BodyGet(result.data, "timeSeriesResponse")))

\* a get_daily_data that warns and then sends includeSummary as it was asked
get_daily_data_sending_summary_as_asked(identifiers, identifier_type, date_start, date_end, requested_datum, include_summary, result) ==
    LET ids == CheckIdList(identifiers)
        dates == _handle_date_parameters(date_start, date_end)
    IN  IF ids.exc # "none" THEN Fail(ids)
        ELSE IF identifier_type.w \notin {"timeseries", "station", "id"}
        THEN Rejected(Raised("ValueError", "Invalid identifier_type"))
        ELSE IF requested_datum.w \notin {"NGVD29", "NAVD88"}
        THEN Rejected(Raised("ValueError", "Invalid requested_datum"))
        ELSE IF dates.exc # "none" THEN Fail(dates)
        ELSE LET sent_summary == include_summary
                 params ==
                     identifier_type.w :> JoinIds(identifiers)
                         @@ "beginDateTime" :> PyStr(dates.value[1])
                         @@ "endDateTime" :> PyStr(dates.value[2])
                         @@ "requestedDatum" :> requested_datum
                         @@ "includeSummary" :> PyWord(IF sent_summary THEN "Y" ELSE "N")
                         @@ CommonParams
                 done == _perform_request(FullUrl("dailydata"), params, result)
             IN  Respond([done EXCEPT !.warned = include_summary],
                         result.data,
                TimeSeriesResponse_from_dict(BodyGet(result.data, "timeSeriesResponse")))

\* DbHydroApi.get_daily_data
get_daily_data(identifiers, identifier_type, date_start, date_end, requested_datum, include_summary, result) ==
    LET ids == CheckIdList(identifiers)
        dates == _handle_date_parameters(date_start, date_end)
    IN  IF ids.exc # "none" THEN Fail(ids)
        ELSE IF identifier_type.w \notin {"timeseries", "station", "id"}
        THEN Rejected(Raised("ValueError", "Invalid identifier_type"))
        ELSE IF requested_datum.w \notin {"NGVD29", "NAVD88"}
        THEN Rejected(Raised("ValueError", "Invalid requested_datum"))
        ELSE IF dates.exc # "none" THEN Fail(dates)
        ELSE LET sent_summary == IF include_summary THEN FALSE ELSE include_summary
                 params ==
                     identifier_type.w :> JoinIds(identifiers)
                         @@ "beginDateTime" :> PyStr(dates.value[1])
                         @@ "endDateTime" :> PyStr(dates.value[2])
                         @@ "requestedDatum" :> requested_datum
                         @@ "includeSummary" :> PyWord(IF sent_summary THEN "Y" ELSE "N")
                         @@ CommonParams
                 done == _perform_request(FullUrl("dailydata"), params, result)
             IN  Respond([done EXCEPT !.warned = include_summary],
                         result.data,
                TimeSeriesResponse_from_dict(BodyGet(result.data, "timeSeriesResponse")))

get_aggregate(station_id, date_start, date_end, calculation, timespan_unit, timespan_value, result) ==
    LET dates == _handle_date_parameters(date_start, date_end)
        calc == _validate_calculation_parameters(calculation, timespan_unit,
                    timespan_value, {"MEAN", "MAX", "MIN", "SUM", "MEDI"},
                    {"YEAR", "MONTH", "WEEK", "DAY", "HOUR", "MINUTE", "SECOND"})
    IN  IF ~IsNonBlankStr(station_id)
        THEN Rejected(Raised("ValueError", "Invalid station ID"))
        ELSE IF dates.exc # "none" THEN Fail(dates)
        ELSE IF calc.exc # "none" THEN Fail(calc)
        ELSE LET params ==
                     "stationId" :> station_id
                         @@ "beginDateTime" :> PyStr(dates.value[1])
                         @@ "endDateTime" :> PyStr(dates.value[2])
                         @@ "calculation" :> calculation
                         @@ "timespanUnit" :> timespan_unit
                         @@ "timespanValue" :> timespan_value
                         @@ CommonParams
             IN  RespondBody(_perform_request(FullUrl("aggregate"), params, result),
                             result.data)

get_interpolate(station_id, date_time, result) ==
    LET datetime_value == _parse_date(date_time)
    IN  IF ~IsNonBlankStr(station_id)
        THEN Rejected(Raised("ValueError", "Invalid station ID"))
        ELSE IF datetime_value.exc # "none" THEN Fail(datetime_value)
        ELSE LET params ==
                     "stationId" :> station_id
                         @@ "dateTime" :> PyStr(datetime_value.value)
                         @@ CommonParams
             IN  RespondBody(_perform_request(FullUrl("interpolate"), params, result),
                             result.data)

get_real_time(identifiers, identifier_type, status, result) ==
    LET ids == CheckIdList(identifiers)
    IN  IF ids.exc # "none" THEN Fail(ids)
        ELSE IF identifier_type.w \notin {"sites", "timeseries"}
        THEN Rejected(Raised("ValueError", "Invalid identifier_type"))
        ELSE LET base == identifier_type.w :> JoinIds(identifiers) @@ CommonParams
                 params == IF status.t # "none" THEN "status" :> status @@ base ELSE base
             IN  Respond(_perform_request(FullUrl("realtime"), params, result),
                         result.data,
                TimeSeriesResponse_from_dict(BodyGet(result.data, "timeSeriesResponse")))

\* a get_period_of_record that validates its argument after the request
get_period_of_record_validating_late(station_id, result) ==
    IF ~IsNonBlankStr(station_id)
    THEN [_perform_request(FullUrl("por"), "stationId" :> station_id @@ CommonParams,
                           result)
             EXCEPT !.outcome = Raised("ValueError", "Invalid station ID")]
    ELSE Respond(_perform_request(FullUrl("por"),
                                  "stationId" :> station_id @@ CommonParams, result),
                 result.data,
                PeriodOfRecord_from_dict(BodyGet(result.data, "periodOfRecord")))

get_period_of_record(station_id, result) ==
    IF ~IsNonBlankStr(station_id)
    THEN Rejected(Raised("ValueError", "Invalid station ID"))
    ELSE LET params == "stationId" :> station_id @@ CommonParams
         IN  Respond(_perform_request(FullUrl("por"), params, result),
                     result.data,
                PeriodOfRecord_from_dict(BodyGet(result.data, "periodOfRecord")))

get_nexrad_pixel_data(pixel_ids, date_start, date_end, frequency, include_zero, result) ==
    LET ids == CheckSizedIdList(pixel_ids)
        dates == _handle_date_parameters(date_start, date_end)
    IN  IF ids.exc # "none" THEN Fail(ids)
        ELSE IF dates.exc # "none" THEN Fail(dates)
        ELSE IF frequency.w \notin {"H", "D", "M", "Y", "E"}
        THEN Rejected(Raised("ValueError", "Invalid frequency"))
        ELSE LET params ==
                     "pixelId" :> JoinIds(pixel_ids)
                         @@ "polygonType" :> PyInt(0)
                         @@ "beginDateTime" :> PyStr(dates.value[1])
                         @@ "endDateTime" :> PyStr(dates.value[2])
                         @@ "frequency" :> frequency
                         @@ "incZero" :> PyWord(IF include_zero THEN "Y" ELSE "N")
                         @@ CommonParams
             IN  Respond(_perform_request(FullUrl("nexrad"), params, result),
                         result.data,
                TimeSeriesResponse_from_dict(BodyGet(result.data, "timeSeriesResponse")))

get_nexrad_polygon_data(identifiers, identifier_type, polygon_type, date_start, date_end, frequency, include_zero, result) ==
    LET ids == CheckSizedIdList(identifiers)
        dates == _handle_date_parameters(date_start, date_end)
    IN  IF ids.exc # "none" THEN Fail(ids)
        ELSE IF identifier_type.w \notin {"polygonId", "polygonName"}
        THEN Rejected(Raised("ValueError", "Invalid identifier_type"))
        ELSE IF polygon_type.t \notin {"int", "float"}
        THEN Rejected(Raised("TypeError", "polygon_type comparison"))
        ELSE IF polygon_type.n < 1 \/ polygon_type.n > 9
                \/ (polygon_type.t = "float" /\ polygon_type.n = 9)
        THEN Rejected(Raised("ValueError", "Invalid polygon_type"))
        ELSE IF dates.exc # "none" THEN Fail(dates)
        ELSE IF frequency.w \notin {"15", "H", "D", "M", "Y", "E"}
        THEN Rejected(Raised("ValueError", "Invalid frequency"))
        ELSE LET params ==
                     identifier_type.w :> JoinIds(identifiers)
                         @@ "polygonType" :> polygon_type
                         @@ "beginDateTime" :> PyStr(dates.value[1])
                         @@ "endDateTime" :> PyStr(dates.value[2])
                         @@ "frequency" :> frequency
                         @@ "incZero" :> PyWord(IF include_zero THEN "Y" ELSE "N")
                         @@ CommonParams
             IN  Respond(_perform_request(FullUrl("nexrad"), params, result),
                         result.data,
                TimeSeriesResponse_from_dict(BodyGet(result.data, "timeSeriesResponse")))

get_time_series_arithmetic(id, timestamp, result) ==
    LET datetime_value == _parse_date(timestamp)
    IN  IF ~IsNonBlankStr(id)
        THEN Rejected(Raised("ValueError", "Invalid id"))
        ELSE IF datetime_value.exc # "none" THEN Fail(datetime_value)
        ELSE LET params ==
                     "id" :> id @@ "timestamp" :> PyStr(datetime_value.value)
                         @@ CommonParams
             IN  Respond(_perform_request(FullUrl("tsarithmetic"), params, result),
                         result.data,
                PointResponse_from_dict(BodyGet(result.data, "pointResponse")))

get_synchronize(time_series_names, date_start, date_end, requested_datum, result) ==
    LET ids == CheckIdList(time_series_names)
        dates == _handle_date_parameters(date_start, date_end)
    IN  IF ids.exc # "none" THEN Fail(ids)
        ELSE IF dates.exc # "none" THEN Fail(dates)
        ELSE IF requested_datum.t # "none" /\ requested_datum.w \notin {"NGVD29", "NAVD88"}
        THEN Rejected(Raised("ValueError", "Invalid requested_datum"))
        ELSE LET base ==
                     "timeseries" :> JoinIds(time_series_names)
                         @@ "beginDateTime" :> PyStr(dates.value[1])
                         @@ "endDateTime" :> PyStr(dates.value[2])
                         @@ CommonParams
                 params == IF requested_datum.t # "none"
                           THEN "requestedDatum" :> requested_datum @@ base
                           ELSE base
             IN  RespondBody(_perform_request(FullUrl("synchronize"), params, result),
                             result.data)

\* `x and x.strip()` as a truth value, for a str or None x
HasText(x) == Truthy(x) /\ Len(strip(x.s)) > 0

get_water_quality(project_code, test_number, station, date_start, date_end, exclude_flagged_results) ==
    LET dates == _handle_date_parameters(date_start, date_end)
    IN  IF (Truthy(project_code) /\ project_code.t # "str")
           \/ (Truthy(station) /\ station.t # "str")
        THEN Rejected(Raised("AttributeError", "strip"))
        ELSE IF ~(HasText(project_code) \/ test_number.t # "none" \/ HasText(station))
        THEN Rejected(Raised("ValueError", "At least one search parameter is required"))
        ELSE IF test_number.t # "none" /\ test_number.t # "int"
        THEN Rejected(Raised("ValueError", "test_number must be an integer"))
        ELSE IF (date_start.t = "none") # (date_end.t = "none")
        THEN Rejected(Raised("ValueError", "Both date_start and date_end must be provided together"))
        ELSE IF Truthy(date_start) /\ Truthy(date_end) /\ dates.exc # "none"
        THEN Fail(dates)
        ELSE Rejected(Raised("NotImplementedError", "waterquality"))

-----------------------------------------------------------------------------
(* Arguments that callers pass *)

IdS1 == PyStr(<<"S", "1">>)

IdG2 == PyStr(<<"G", "2">>)

IdBlank == PyStr(<<" ", " ">>)

IdNumber == PyInt(5)

Day1 == PyStr(<<"2", "0", "2", "3", "-", "0", "1", "-", "0", "1">>)

Day2 == PyStr(<<"2", "0", "2", "3", "-", "0", "1", "-", "0", "2">>)

Day1Minutes == PyStr(<<"2", "0", "2", "3", "-", "0", "1", "-", "0", "1", " ",
                       "1", "2", ":", "3", "0">>)

Day1Seconds == PyStr(<<"2", "0", "2", "3", "-", "0", "1", "-", "0", "1", "T",
                       "1", "2", ":", "3", "0", ":", "4", "5">>)

Day1Object == PyDatetime(2023, 1, 1, 12, 30, 45, 123000)

\* the empty string, and strings that denote no date
EmptyStr == PyStr(<<>>)

NoSuchMonth == PyStr(<<"2", "0", "2", "3", "-", "1", "3", "-", "4", "5", " ",
                       "9", "9", ":", "9", "9">>)

NotADate == PyStr(<<"n", "o", "t", "-", "a", "-", "d", "a", "t", "e">>)

DateInputs == {Day1, Day1Minutes, Day1Seconds, Day1Object, EmptyStr, NoSuchMonth,
               NotADate}

DateRanges == {<<Day1, Day2>>, <<Day2, Day1>>, <<Day1Object, Day2>>, <<Day1, NoSuchMonth>>}

\* calculation, timespan_unit, timespan_value
CalculationTriples ==
    {<<PyNone, PyNone, PyInt(1)>>, <<PyWord("MEDI"), PyWord("DAY"), PyInt(1)>>,
     <<PyWord("MEAN"), PyNone, PyInt(1)>>, <<PyWord("MEAN"), PyWord("DAY"), PyInt(0)>>}

TimeSeriesArgs ==
    [site_ids : {PyList(<<>>), PyList(<<IdS1, IdG2>>)},
     dates : DateRanges, calc : CalculationTriples]

DailyDataArgs ==
    [identifiers : {PyList(<<IdS1>>), PyList(<<IdNumber>>)},
     identifier_type : {PyWord("station"), PyWord("sites")},
     dates : {<<Day1, Day2>>, <<NotADate, Day2>>},
     requested_datum : {PyWord("NGVD29"), PyWord("WGS84")},
     include_summary : BOOLEAN]

AggregateArgs ==
    [station_id : {IdS1, IdBlank},
     dates : {<<Day1, Day1>>, <<Day2, Day1>>, <<EmptyStr, Day2>>},
     calc : CalculationTriples \cup {<<PyNone, PyWord("DAY"), PyInt(1)>>,
                                     <<PyWord("MEAN"), PyWord("DAY"), PyFloat(1)>>}]

InterpolateArgs == [station_id : {IdS1, EmptyStr}, date_time : DateInputs]

RealTimeArgs ==
    [identifiers : {PyList(<<>>), PyList(<<IdS1>>), PyList(<<IdS1, IdBlank>>)},
     identifier_type : {PyWord("sites"), PyWord("station")},
     status : {PyNone, PyWord("A")}]

PeriodOfRecordArgs == [station_id : {IdS1, IdBlank, EmptyStr, IdNumber}]

NexradPixelArgs ==
    [pixel_ids : {PyList(<<>>), PyList(<<IdS1>>)},
     dates : {<<Day1, Day2>>, <<Day2, Day1>>, <<NotADate, Day2>>}, frequency : {PyWord("D"), PyWord("15")},
     include_zero : BOOLEAN]

NexradPolygonArgs ==
    [identifiers : {PyList(<<>>), PyList(<<IdS1>>)},
     identifier_type : {PyWord("polygonId"), PyWord("pixelId")},
     polygon_type : {PyInt(1), PyInt(10)},
     dates : {<<Day1, Day2>>, <<EmptyStr, Day2>>},
     frequency : {PyWord("15"), PyWord("W")},
     include_zero : {FALSE}]

TimeSeriesArithmeticArgs == [id : {IdS1, IdBlank}, timestamp : DateInputs]

SynchronizeArgs ==
    [time_series_names : {PyList(<<IdS1, IdG2>>), PyList(<<IdNumber>>)},
     dates : DateRanges,
     requested_datum : {PyNone, PyWord("NAVD88"), PyWord("WGS84")}]

WaterQualityArgs ==
    [project_code : {PyNone, IdBlank},
     test_number : {PyNone, PyInt(7), PyFloat(7)},
     station : {PyNone, IdG2},
     dates : {<<PyNone, PyNone>>, <<Day1, PyNone>>, <<PyNone, Day2>>, <<Day1, Day2>>,
              <<Day2, Day1>>, <<Day1, EmptyStr>>, <<NoSuchMonth, Day2>>},
     exclude_flagged_results : {FALSE}]

-----------------------------------------------------------------------------
(* Results that a transport hands back *)

MsgOK == <<"O", "K">>

MsgRequestFailed == <<"R", "e", "q", "u", "e", "s", "t", " ", "f", "a", "i", "l", "e", "d">>

TextSuccess == PyStr(<<"S", "u", "c", "c", "e", "s", "s">>)

TextFailed == PyStr(<<"F", "a", "i", "l", "e", "d">>)

TextErrorUpper == PyStr(<<"E", "R", "R", "O", "R", ":", " ", "b", "a", "d">>)

TextErrorMixed == PyStr(<<"I", "n", "t", "e", "r", "n", "a", "l", " ", "E", "r", "r", "o", "r">>)

TextErrorLower == PyStr(<<"n", "o", " ", "e", "r", "r", "o", "r", "s">>)

\* a body with one top-level entry
OneEntry(key, value) == DictBody(<<[k |-> key, v |-> value]>>)

\* the results explored together with the arguments
Results ==
    {Result(200, MsgOK,
            OneEntry("timeSeriesResponse",
                     TopDict(StatusDict(PyInt(200), TextSuccess, PyFloat(0))))),
     Result(404, <<"N", "o", "t", " ", "F", "o", "u", "n", "d">>, DictBody(<<>>)),
     Result(0, MsgRequestFailed, DictBody(<<>>))}

\* the statuses that a status entry of a body may hold
Statuses ==
    {StatusDict(PyInt(200), TextSuccess, PyFloat(0)),
     StatusDict(PyInt(200), TextErrorUpper, PyFloat(0)),
     StatusDict(PyInt(200), TextErrorMixed, PyFloat(1)),
     StatusDict(PyInt(299), TextErrorLower, Absent),
     StatusDict(Absent, TextErrorMixed, Absent),
     StatusDict(PyInt(0), TextFailed, PyFloat(0)),
     StatusDict(PyInt(199), TextFailed, Absent),
     StatusDict(PyInt(300), TextSuccess, PyFloat(1)),
     StatusDict(PyInt(404), PyNone, PyFloat(0)),
     StatusDict(PyInt(500), TextErrorMixed, PyFloat(1)),
     StatusDict(PyStr(<<"5", "0", "0">>), TextFailed, Absent),
     StatusDict(PyInt(200), PyNone, Absent),
     StatusDict(PyNone, Absent, Absent),
     StatusNull, StatusText, StatusAbsent}

\* the bodies explored for the method whose response sits under key
Bodies(key) ==
    {NullBody, ListBody, DictBody(<<>>), OneEntry(key, TopNull), OneEntry(key, TopText)}
        \cup {OneEntry(key, TopDict(st)) : st \in Statuses}
        \cup {DictBody(<<[k |-> "version", v |-> TopText],
                         [k |-> key, v |-> TopDict(st)]>>) :
                 st \in {StatusDict(PyInt(200), TextSuccess, PyFloat(0)),
                         StatusDict(PyInt(500), TextErrorMixed, PyFloat(1))}}

\* the results explored with fixed valid arguments
ResponseResults(key) ==
    {Result(code, IF code = 0 THEN MsgRequestFailed ELSE MsgOK, body) :
         code \in {0, 200, 301, 500}, body \in Bodies(key)}

-----------------------------------------------------------------------------
(* The state: the facade instance, the last invocation (its arguments, the  *)
(* Result its GET received, what it did), the number of invocations and of  *)
(* GETs the transport has received, and whether the last invocation         *)
(* repeated the one before it.                                              *)

\* DbHydroApi.__init__
DbHydroApi(rest_adapter, client_id, client_secret, api_version) ==
    [rest_adapter |-> rest_adapter, _client_secret |-> PyWord(client_secret),
     _client_id |-> PyWord(client_id),
     base_url |-> <<"https://dataservice-proxy.api.sfwmd.gov/v", api_version, "/ext/data/">>]

NoCall == [method |-> "none", args |-> <<>>, result |-> NoResult, gets |-> 0,
           request |-> NoRequest, warned |-> FALSE, outcome |-> Returned]

Init ==
    /\ self \in {DbHydroApi("adapter", "test_client_id", "test_client_secret", 1),
                 DbHydroApi("adapter", "other_id", "other_secret", 2)}
    /\ call = NoCall
    /\ nCalls = 0
    /\ transportGets = 0
    /\ repeat = FALSE

\* One invocation of a facade method from start to end: done is what the
\* method did with these arguments and this Result.
Invoke(method, args, result, done) ==
    LET received == IF done.gets > 0 THEN result ELSE NoResult
    IN  /\ call' = [method |-> method, args |-> args, result |-> received,
                    gets |-> done.gets, request |-> done.request,
                    warned |-> done.warned, outcome |-> done.outcome]
        /\ nCalls' = nCalls + 1
        /\ transportGets' = transportGets + done.gets
        /\ repeat' = (call.method = method /\ call.args = args /\ call.result = received)
        /\ UNCHANGED self

GetTimeSeries(limit, Args, Res) ==
    /\ nCalls < limit
    /\ \E a \in Args, r \in Res :
           Invoke("get_time_series", a, r,
                  get_time_series(a.site_ids, a.dates[1], a.dates[2], a.calc[1],
                                  a.calc[2], a.calc[3], r))

GetDailyData(limit, Args, Res) ==
    /\ nCalls < limit
    /\ \E a \in Args, r \in Res :
           Invoke("get_daily_data", a, r,
                  get_daily_data(a.identifiers, a.identifier_type, a.dates[1],
                                 a.dates[2], a.requested_datum, a.include_summary, r))

GetAggregate(limit, Args, Res) ==
    /\ nCalls < limit
    /\ \E a \in Args, r \in Res :
           Invoke("get_aggregate", a, r,
                  get_aggregate(a.station_id, a.dates[1], a.dates[2], a.calc[1],
                                a.calc[2], a.calc[3], r))

GetInterpolate(limit, Args, Res) ==
    /\ nCalls < limit
    /\ \E a \in Args, r \in Res :
           Invoke("get_interpolate", a, r, get_interpolate(a.station_id, a.date_time, r))

GetRealTime(limit, Args, Res) ==
    /\ nCalls < limit
    /\ \E a \in Args, r \in Res :
           Invoke("get_real_time", a, r,
                  get_real_time(a.identifiers, a.identifier_type, a.status, r))

GetPeriodOfRecord(limit, Args, Res) ==
    /\ nCalls < limit
    /\ \E a \in Args, r \in Res :
           Invoke("get_period_of_record", a, r, get_period_of_record(a.station_id, r))

GetNexradPixelData(limit, Args, Res) ==
    /\ nCalls < limit
    /\ \E a \in Args, r \in Res :
           Invoke("get_nexrad_pixel_data", a, r,
                  get_nexrad_pixel_data(a.pixel_ids, a.dates[1], a.dates[2],
                                        a.frequency, a.include_zero, r))

GetNexradPolygonData(limit, Args, Res) ==
    /\ nCalls < limit
    /\ \E a \in Args, r \in Res :
           Invoke("get_nexrad_polygon_data", a, r,
                  get_nexrad_polygon_data(a.identifiers, a.identifier_type,
                                          a.polygon_type, a.dates[1], a.dates[2],
                                          a.frequency, a.include_zero, r))

GetTimeSeriesArithmetic(limit, Args, Res) ==
    /\ nCalls < limit
    /\ \E a \in Args, r \in Res :
           Invoke("get_time_series_arithmetic", a, r,
                  get_time_series_arithmetic(a.id, a.timestamp, r))

GetSynchronize(limit, Args, Res) ==
    /\ nCalls < limit
    /\ \E a \in Args, r \in Res :
           Invoke("get_synchronize", a, r,
                  get_synchronize(a.time_series_names, a.dates[1], a.dates[2],
                                  a.requested_datum, r))

GetWaterQuality(limit, Args) ==
    /\ nCalls < limit
    /\ \E a \in Args :
           Invoke("get_water_quality", a, NoResult,
                  get_water_quality(a.project_code, a.test_number, a.station,
                                    a.dates[1], a.dates[2], a.exclude_flagged_results))

\* Callers invoke the facade methods one after the other, in any order.
Next ==
    \/ GetTimeSeries(MaxCalls, TimeSeriesArgs, Results)
    \/ GetDailyData(MaxCalls, DailyDataArgs, Results)
    \/ GetAggregate(MaxCalls, AggregateArgs, Results)
    \/ GetInterpolate(MaxCalls, InterpolateArgs, Results)
    \/ GetRealTime(MaxCalls, RealTimeArgs, Results)
    \/ GetPeriodOfRecord(MaxCalls, PeriodOfRecordArgs, Results)
    \/ GetNexradPixelData(MaxCalls, NexradPixelArgs, Results)
    \/ GetNexradPolygonData(MaxCalls, NexradPolygonArgs, Results)
    \/ GetTimeSeriesArithmetic(MaxCalls, TimeSeriesArithmeticArgs, Results)
    \/ GetSynchronize(MaxCalls, SynchronizeArgs, Results)
    \/ GetWaterQuality(MaxCalls, WaterQualityArgs)

Spec == Init /\ [][Next]_vars

-----------------------------------------------------------------------------
(* The sending methods with fixed valid arguments, one call, and every      *)
(* Result of ResponseResults: the specification for what the facade makes   *)
(* of a response.                                                           *)

InitResponses ==
    /\ self = DbHydroApi("adapter", "test_client_id", "test_client_secret", 1)
    /\ call = NoCall
    /\ nCalls = 0
    /\ transportGets = 0
    /\ repeat = FALSE

NextResponses ==
    \/ GetTimeSeries(MaxResponseCalls,
                     {[site_ids |-> PyList(<<IdS1, IdG2>>), dates |-> <<Day1, Day2>>,
                       calc |-> <<PyNone, PyNone, PyInt(1)>>]},
                     ResponseResults("timeSeriesResponse"))
    \/ GetDailyData(MaxResponseCalls,
                    {[identifiers |-> PyList(<<IdS1>>), identifier_type |-> PyWord("station"),
                      dates |-> <<Day1, Day2>>, requested_datum |-> PyWord("NGVD29"),
                      include_summary |-> FALSE]},
                    ResponseResults("timeSeriesResponse"))
    \/ GetAggregate(MaxResponseCalls,
                    {[station_id |-> IdS1, dates |-> <<Day1, Day2>>,
                      calc |-> <<PyWord("MEAN"), PyWord("DAY"), PyInt(1)>>]},
                    ResponseResults("aggregateResponse"))
    \/ GetInterpolate(MaxResponseCalls, {[station_id |-> IdS1, date_time |-> Day1Minutes]},
                      ResponseResults("interpolateResponse"))
    \/ GetRealTime(MaxResponseCalls,
                   {[identifiers |-> PyList(<<IdS1>>), identifier_type |-> PyWord("sites"),
                     status |-> PyNone]},
                   ResponseResults("timeSeriesResponse"))
    \/ GetPeriodOfRecord(MaxResponseCalls, {[station_id |-> IdS1]},
                         ResponseResults("periodOfRecord"))
    \/ GetNexradPixelData(MaxResponseCalls,
                          {[pixel_ids |-> PyList(<<IdS1>>), dates |-> <<Day1, Day2>>,
                            frequency |-> PyWord("D"), include_zero |-> FALSE]},
                          ResponseResults("timeSeriesResponse"))
    \/ GetNexradPolygonData(MaxResponseCalls,
                            {[identifiers |-> PyList(<<IdS1>>),
                              identifier_type |-> PyWord("polygonId"),
                              polygon_type |-> PyInt(1), dates |-> <<Day1, Day2>>,
                              frequency |-> PyWord("15"), include_zero |-> FALSE]},
                            ResponseResults("timeSeriesResponse"))
    \/ GetTimeSeriesArithmetic(MaxResponseCalls, {[id |-> IdS1, timestamp |-> Day1Seconds]},
                               ResponseResults("pointResponse"))
    \/ GetSynchronize(MaxResponseCalls,
                      {[time_series_names |-> PyList(<<IdS1, IdG2>>),
                        dates |-> <<Day1, Day2>>, requested_datum |-> PyNone]},
                      ResponseResults("synchronizeResponse"))

SpecResponses == InitResponses /\ [][NextResponses]_vars

-----------------------------------------------------------------------------
(* The methods that take a list of identifiers, with every kind of value    *)
(* for the list, valid other arguments and a successful Result: the         *)
(* specification for what the facade makes of its identifier lists.         *)

\* what callers pass for a list of identifiers: lists, bare strings, a set, a
\* dict (items holds what a for loop over it visits), numbers and None
IdLists ==
    {PyList(<<>>), PyList(<<IdS1>>), PyList(<<IdS1, IdG2>>), PyList(<<IdS1, EmptyStr>>),
     PyList(<<IdBlank, IdS1>>), PyList(<<IdS1, IdNumber, IdBlank>>), PyList(<<PyNone>>),
     PyList(<<PyStr(<<" ", "S", "1", " ">>), IdG2>>),
     IdS1, PyStr(<<" ", "S", "1", " ">>), EmptyStr,
     [PyList(<<IdS1>>) EXCEPT !.t = "set"],
     [PyList(<<PyStr(<<"k", "e", "y">>)>>) EXCEPT !.t = "dict"],
     IdNumber, PyInt(0), PyNone}

NextArguments ==
    \/ GetTimeSeries(MaxArgumentCalls,
                     [site_ids : IdLists, dates : {<<Day1, Day2>>},
                      calc : {<<PyNone, PyNone, PyNone>>,
                              <<PyWord("MEAN"), PyWord("DAY"), PyInt(1)>>}],
                     {Result(200, MsgOK, DictBody(<<>>))})
    \/ GetDailyData(MaxArgumentCalls,
                    [identifiers : IdLists, identifier_type : {PyWord("station")},
                     dates : {<<Day1, Day2>>}, requested_datum : {PyWord("NGVD29")},
                     include_summary : BOOLEAN],
                    {Result(200, MsgOK, DictBody(<<>>))})
    \/ GetRealTime(MaxArgumentCalls,
                   [identifiers : IdLists, identifier_type : {PyWord("sites")},
                    status : {PyNone, PyWord("A")}],
                   {Result(200, MsgOK, DictBody(<<>>))})
    \/ GetNexradPixelData(MaxArgumentCalls,
                          [pixel_ids : IdLists, dates : {<<Day1, Day2>>},
                           frequency : {PyWord("D")}, include_zero : BOOLEAN],
                          {Result(200, MsgOK, DictBody(<<>>))})
    \/ GetNexradPolygonData(MaxArgumentCalls,
                            [identifiers : IdLists,
                             identifier_type : {PyWord("polygonId"), PyWord("polygonName")},
                             polygon_type : {PyInt(1)}, dates : {<<Day1, Day2>>},
                             frequency : {PyWord("15")}, include_zero : {FALSE}],
                            {Result(200, MsgOK, DictBody(<<>>))})
    \/ GetSynchronize(MaxArgumentCalls,
                      [time_series_names : IdLists, dates : {<<Day1, Day2>>},
                       requested_datum : {PyNone, PyWord("NAVD88")}],
                      {Result(200, MsgOK, DictBody(<<>>))})

SpecArguments == InitResponses /\ [][NextArguments]_vars

-----------------------------------------------------------------------------
(* models.responses.synchronize: the wire document maps a timestamp to a    *)
(* mapping from station id to a block; mappings keep insertion order and    *)
(* are sequences of entries [k, v].                                         *)

\* d[k] = v on an insertion-ordered mapping
SetItem(d, k, v) ==
    IF \E n \in 1..Len(d) : d[n].k = k
    THEN [n \in 1..Len(d) |-> IF d[n].k = k THEN [k |-> k, v |-> v] ELSE d[n]]
    ELSE Append(d, [k |-> k, v |-> v])

\* SynchronizeValue.from_dict: dataclass_from_dict reads each field with data.get
SynchronizeValue_from_dict(data) ==
    [ms_since_epoch |-> GetOr(data.msSinceEpoch, PyNone), value |-> GetOr(data.value, PyNone),
     quality_code |-> GetOr(data.qualityCode, PyNone), origin |-> GetOr(data.origin, PyNone)]

\* a SynchronizeEntry.from_dict that lists the latest value first
SynchronizeEntry_from_dict_latest_first(station_id, station_data) ==
    [station_id |-> station_id,
     key |-> PyWord(station_id),
     values |-> [n \in 1..Len(station_data) |->
                    SynchronizeValue_from_dict(station_data[Len(station_data) + 1 - n].v)]]

\* SynchronizeEntry.from_dict: one value per timestamp of station_data, in
\* its order; key is the first 'key' that is not None, or the station id
SynchronizeEntry_from_dict(station_id, station_data) ==
    [station_id |-> station_id,
     key |-> IF \E n \in 1..Len(station_data) :
                    Truthy(GetOr(station_data[n].v.key, PyWord(station_id)))
                        /\ \A m \in 1..(n - 1) :
                               GetOr(station_data[m].v.key, PyWord(station_id)).t = "none"
             THEN GetOr(station_data[CHOOSE n \in 1..Len(station_data) :
                            GetOr(station_data[n].v.key, PyWord(station_id)).t # "none"
                                /\ \A m \in 1..(n - 1) :
                                       GetOr(station_data[m].v.key,
                                             PyWord(station_id)).t = "none"].v.key,
                        PyWord(station_id))
             ELSE PyWord(station_id),
     values |-> [n \in 1..Len(station_data) |->
                    SynchronizeValue_from_dict(station_data[n].v)]]

RECURSIVE GroupByStation(_, _, _, _)
\* SynchronizeResponse.from_dict, lines 87-96: the entries of data from the
\* i-th timestamp and its j-th station on are added to station_data; what is
\* no mapping is skipped
GroupByStation(data, i, j, station_data) ==
    IF i > Len(data) THEN station_data
    ELSE IF data[i].v.t # "dict" \/ j > Len(data[i].v.entries)
    THEN GroupByStation(data, i + 1, 1, station_data)
    ELSE IF data[i].v.entries[j].v.t # "dict"
    THEN GroupByStation(data, i, j + 1, station_data)
    ELSE LET station_id == data[i].v.entries[j].k
             known == \E n \in 1..Len(station_data) : station_data[n].k = station_id
             timestamps ==
                 IF known
                 THEN station_data[CHOOSE n \in 1..Len(station_data) :
                                       station_data[n].k = station_id].v
                 ELSE <<>>
         IN  GroupByStation(data, i, j + 1,
                 SetItem(station_data, station_id,
                         SetItem(timestamps, data[i].k, data[i].v.entries[j].v)))

\* SynchronizeResponse.from_dict: the stations in the order of their first block
SynchronizeResponse_from_dict(data) ==
    IF data.t # "dict" THEN Raise("AttributeError", "items")
    ELSE Ok([n \in 1..Len(GroupByStation(data.entries, 1, 1, <<>>)) |->
                SynchronizeEntry_from_dict(
                    GroupByStation(data.entries, 1, 1, <<>>)[n].k,
                    GroupByStation(data.entries, 1, 1, <<>>)[n].v)])

-----------------------------------------------------------------------------
(* rest_adapters.rest_adapter_requests: the default transport.  net is what *)
(* requests.request does with the request: it raises an exception of the    *)
(* requests library or returns a response with a body that is JSON or not.  *)

\* a transport whose handler names the connection and timeout errors only
RestAdapterRequests_perform_request_catching_connection_errors(http_method, endpoint, endpoint_params, headers, data, net) ==
    [request |-> [sent |-> TRUE, method |-> http_method, endpoint |-> endpoint,
                  params |-> endpoint_params, json |-> data,
                  headers |-> IF "User-Agent" \in DOMAIN headers THEN headers
                              ELSE headers @@ Headers],
     headers |-> IF "User-Agent" \in DOMAIN headers THEN headers
                 ELSE headers @@ Headers,
     outcome |-> IF net.raises \in {"ConnectionError", "Timeout"}
                 THEN Ok(Result(0, <<"Request failed: ">> \o net.text, DictBody(<<>>)))
                 ELSE IF net.raises # "none" THEN Raise(net.raises, net.text)
                 ELSE Ok(Result(net.status_code, net.reason,
                                IF net.json.t = "invalid" THEN DictBody(<<>>)
                                ELSE net.json))]

\* RestAdapterRequests._perform_request; headers is the mapping of the
\* caller, and line 82 stores the User-Agent entry into that very mapping:
\* the field headers is the caller's mapping when the call has returned.
\* `except RequestException` catches the classes of the requests library.
RestAdapterRequests_perform_request(http_method, endpoint, endpoint_params, headers, data, net) ==
    [request |-> [sent |-> TRUE, method |-> http_method, endpoint |-> endpoint,
                  params |-> endpoint_params, json |-> data,
                  headers |-> IF "User-Agent" \in DOMAIN headers THEN headers
                              ELSE headers @@ Headers],
     headers |-> IF "User-Agent" \in DOMAIN headers THEN headers
                 ELSE headers @@ Headers,
     outcome |-> IF net.raises \in {"RequestException", "ConnectionError", "Timeout",
                                    "TooManyRedirects"}
                 THEN Ok(Result(0, <<"Request failed: ">> \o net.text, DictBody(<<>>)))
                 ELSE IF net.raises # "none" THEN Raise(net.raises, net.text)
                 ELSE Ok(Result(net.status_code, net.reason,
                                IF net.json.t = "invalid" THEN DictBody(<<>>)
                                ELSE net.json))]

\* what requests.request may do
NetworkOutcomes ==
    [raises : {"RequestException", "ConnectionError", "Timeout", "TooManyRedirects"},
     text : {<<"Connection failed">>, <<"Request timed out">>},
     status_code : {0}, reason : {<<>>}, json : {NullBody}]
        \cup [raises : {"none"}, text : {<<>>}, status_code : {200, 404, 503},
              reason : {MsgOK, <<"Not Found">>},
              json : {NullBody, ListBody, DictBody(<<>>),
                      OneEntry("error", TopText), [t |-> "invalid", entries |-> <<>>]}]

-----------------------------------------------------------------------------
(* The units below the facade, one call each: the date and calculation      *)
(* helpers, SynchronizeResponse.from_dict and the default transport.  The   *)
(* initial state holds the call to make, the step makes it.                 *)

\* a call that has not been made yet
UnitCall(method, args) ==
    [method |-> method, args |-> args, result |-> NoResult, gets |-> 0,
     request |-> NoRequest, warned |-> FALSE,
     outcome |-> [exc |-> "pending", why |-> "", value |-> <<>>]]

\* the date inputs of the helpers: every accepted shape, lenient spellings,
\* and what is no date
ParseDateInputs ==
    DateInputs \cup
    {Day2, PyNone, PyInt(20230101),
     PyStr(Day1.s \o <<" ", "1", "2">>),
     PyStr(Day1.s \o <<"1", "2", ":", "3", "0">>),
     PyStr(Day1.s \o <<"T", "1", "2", ":", "3", "0">>),
     PyStr(Day1.s \o <<" ", "1", "2", ":", "3", "0", ":", "4", "5">>),
     PyStr(Day1.s \o <<" ", "1", "2", ":", "3", "0", ":", "4", "5", ":", "1", "2", "3">>),
     PyStr(Day1.s \o <<" ", "1", "2", ":", "3", "0", ":", "4", "5", ":", "1">>),
     PyStr(Day1.s \o <<" ", "1", "2", ":", "3", "0", ":", "4", "5", ":", "1", "0", "0">>),
     PyStr(Day1.s \o <<" ", "1", ":", "0", "5">>),
     PyStr(Day1.s \o <<" ", "0", "1", ":", "0", "5">>),
     PyStr(<<" ">> \o Day1.s \o <<" ">>),
     PyStr(<<"2", "0", "2", "3", "/", "0", "1", "/", "0", "1">>),
     PyStr(Day2.s \o <<" ", "0", "0", ":", "0", "0">>),
     PyStr(Day1.s \o <<" ", " ", "1", "2", ":", "3", "0">>),
     PyStr(Day1.s \o <<"T", "1", "2", ":", "3", "0", " ", "U", "T", "C">>),
     PyStr(Day1.s \o <<" ", "1", "2", ":", "3", "0", ":", "4", "5", ":", "1", "2", "3",
                       ":", "9">>)}

\* what a timestamp of the synchronize document may hold when stamped ms:
\* no mapping, or a mapping of up to two stations to blocks or null
StationsAt(ms) ==
    LET Block(stamp, key) ==
            [t |-> "dict", key |-> key, msSinceEpoch |-> PyInt(stamp),
             value |-> PyFloat(stamp),
             qualityCode |-> PyStr(IF stamp = 1 THEN <<"P">> ELSE <<"A">>),
             origin |-> PyStr(IF stamp = 2 THEN <<"r", "a", "w">> ELSE <<"e", "d", "i", "t">>)]
    IN  {NullBody, DictBody(<<>>)}
            \cup {DictBody(<<[k |-> s, v |-> b]>>) :
                      s \in {"S1", "G2"}, b \in {Block(ms, Absent), TopNull}}
            \cup {DictBody(<<[k |-> p[1], v |-> b1], [k |-> p[2], v |-> b2]>>) :
                      p \in {<<"S1", "G2">>, <<"G2", "S1">>},
                      b1 \in {Block(ms, PyWord("key")), TopNull},
                      b2 \in {Block(10 * ms, PyNone), TopNull}}

\* the documents of the synchronize endpoint: timestamps latest first
SynchronizeDocuments ==
    {DictBody(<<>>)}
        \cup {DictBody(<<[k |-> "1", v |-> x]>>) : x \in StationsAt(1)}
        \cup {DictBody(<<[k |-> "2", v |-> x], [k |-> "1", v |-> y]>>) :
                  x \in StationsAt(2), y \in StationsAt(1)}

\* the calls explored
UnitCalls ==
    {UnitCall("_parse_date", <<d>>) : d \in ParseDateInputs}
        \cup {UnitCall("_handle_date_parameters", <<a, b>>) : a, b \in ParseDateInputs}
        \cup {UnitCall("_validate_calculation_parameters", <<c, u, v, DefaultCalculations, DefaultTimespanUnits>>) :
                  c \in {PyNone, PyWord("MEAN"), PyWord("MEDI"), PyWord("")},
                  u \in {PyNone, PyWord("DAY"), PyWord("FORTNIGHT")},
                  v \in {PyNone, PyInt(1), PyInt(30), PyInt(0), PyInt(-1), PyFloat(1),
                         PyStr(<<"5">>)}}
        \cup {UnitCall("_check_api_response",
                       <<DictBody(<<[k |-> "metadata", v |-> a],
                                    [k |-> "timeSeriesResponse", v |-> b]>>), code>>) :
                  a, b \in {TopNull, TopText} \cup {TopDict(st) : st \in Statuses},
                  code \in {200, 500}}
        \cup {UnitCall("SynchronizeResponse.from_dict", <<d>>) : d \in SynchronizeDocuments}
        \cup {UnitCall(m, <<e, CommonParams, h>>) :
                  m \in {"RestAdapterRequests.get", "RestAdapterRequests.post",
                         "RestAdapterRequests.delete"},
                  e \in {FullUrl("timeseries")},
                  h \in {<<>>, Headers, ("Accept" :> <<"application/json">>)}}

InitUnits ==
    /\ self = DbHydroApi("adapter", "test_client_id", "test_client_secret", 1)
    /\ call \in UnitCalls
    /\ nCalls = 0
    /\ transportGets = 0
    /\ repeat = FALSE

\* the pending call of method is made: done is its request and its outcome
Apply(method, result, done) ==
    /\ call.method = method
    /\ nCalls = 0
    /\ call' = [call EXCEPT !.result = result, !.request = done.request,
                            !.outcome = done.outcome]
    /\ nCalls' = 1
    /\ UNCHANGED <<self, transportGets, repeat>>

ParseDate ==
    Apply("_parse_date", NoResult,
          [request |-> NoRequest, outcome |-> _parse_date(call.args[1])])

\* _parse_date called on the string that the first call returned
ParseDateAgain ==
    /\ call.method = "_parse_date"
    /\ nCalls = 1
    /\ call.outcome.exc = "none"
    /\ call' = [call EXCEPT !.result = _parse_date(PyStr(call.outcome.value))]
    /\ nCalls' = 2
    /\ UNCHANGED <<self, transportGets, repeat>>

HandleDateParameters ==
    Apply("_handle_date_parameters", NoResult,
          [request |-> NoRequest,
           outcome |-> _handle_date_parameters(call.args[1], call.args[2])])

ValidateCalculationParameters ==
    Apply("_validate_calculation_parameters", NoResult,
          [request |-> NoRequest,
           outcome |-> _validate_calculation_parameters(call.args[1], call.args[2],
                           call.args[3], call.args[4], call.args[5])])

\* DbHydroApi._check_api_response on a body and the HTTP status it came with
CheckApiResponse ==
    Apply("_check_api_response", NoResult,
          [request |-> NoRequest,
           outcome |-> _check_api_response(call.args[1], call.args[2])])

SynchronizeFromDict ==
    Apply("SynchronizeResponse.from_dict", NoResult,
          [request |-> NoRequest, outcome |-> SynchronizeResponse_from_dict(call.args[1])])

\* a call of the default transport is made: done is what _perform_request
\* did, and the headers argument is the caller's mapping after the call
ApplyTransport(method, net, done) ==
    /\ call.method = method
    /\ nCalls = 0
    /\ call' = [call EXCEPT !.result = net, !.request = done.request,
                            !.outcome = done.outcome, !.args[3] = done.headers]
    /\ nCalls' = 1
    /\ UNCHANGED <<self, transportGets, repeat>>

\* RestAdapterRequests.get with whatever the network does
RestAdapterGet ==
    \E net \in NetworkOutcomes :
        ApplyTransport("RestAdapterRequests.get", net,
            RestAdapterRequests_perform_request("GET", call.args[1], call.args[2],
                                                call.args[3], PyNone, net))

\* RestAdapterRequests.post, called without data
RestAdapterPost ==
    \E net \in NetworkOutcomes :
        ApplyTransport("RestAdapterRequests.post", net,
            RestAdapterRequests_perform_request("POST", call.args[1], call.args[2],
                                                call.args[3], PyNone, net))

\* RestAdapterRequests.delete
RestAdapterDelete ==
    \E net \in NetworkOutcomes :
        ApplyTransport("RestAdapterRequests.delete", net,
            RestAdapterRequests_perform_request("DELETE", call.args[1], call.args[2],
                                                call.args[3], PyNone, net))

NextUnits ==
    \/ ParseDate
    \/ ParseDateAgain
    \/ HandleDateParameters
    \/ ValidateCalculationParameters
    \/ CheckApiResponse
    \/ SynchronizeFromDict
    \/ RestAdapterGet
    \/ RestAdapterPost
    \/ RestAdapterDelete

SpecUnits == InitUnits /\ [][NextUnits]_vars

-----------------------------------------------------------------------------
(* models.responses and utils: the response models.  A JSON object of the   *)
(* wire is a record whose field t is "dict" and whose other fields are the  *)
(* keys it holds; a JSON array is a PyList, a JSON null is PyNone.  An      *)
(* instance of a dataclass is the record of its fields, with the name of    *)
(* its class in the field t.  The strings that the models sort and compare  *)
(* (keys, site codes, quality codes) are PyStr values.                      *)

\* the characters of the strings below in the order of their code points
ord(c) ==
    CHOOSE i \in 1..66 :
        (<<" ", "-">> \o DigitChars \o <<":">> \o UpperChars \o <<"_">> \o LowerChars)[i] = c

\* a < b for two str values
StrLess(a, b) ==
    \E i \in 1..Len(b.s) :
        /\ \A j \in 1..(i - 1) : j <= Len(a.s) /\ a.s[j] = b.s[j]
        /\ i > Len(a.s) \/ ord(a.s[i]) < ord(b.s[i])

RECURSIVE sorted(_)
\* sorted(values) for a set of str values
sorted(values) ==
    IF values = {} THEN <<>>
    ELSE <<CHOOSE x \in values : \A y \in values : ~StrLess(y, x)>>
             \o sorted(values \ {CHOOSE x \in values : \A y \in values : ~StrLess(y, x)})

\* max(items, key=...): the first item whose key is not below another's;
\* key is the sequence of the keys of the items
max(items, key) ==
    items[CHOOSE i \in 1..Len(items) :
              /\ \A j \in 1..Len(items) : key[j] <= key[i]
              /\ \A j \in 1..(i - 1) : key[j] < key[i]]

\* min(items, key=...): the first item whose key is not above another's
min(items, key) ==
    items[CHOOSE i \in 1..Len(items) :
              /\ \A j \in 1..Len(items) : key[j] >= key[i]
              /\ \A j \in 1..(i - 1) : key[j] > key[i]]

RECURSIVE sorted_by(_, _)
\* sorted(items, key=...): a stable sort by integer keys
sorted_by(items, key) ==
    IF Len(items) = 0 THEN <<>>
    ELSE LET i == CHOOSE i \in 1..Len(items) :
                      /\ \A j \in 1..Len(items) : key[j] >= key[i]
                      /\ \A j \in 1..(i - 1) : key[j] > key[i]
             rest == [j \in 1..(Len(items) - 1) |-> IF j < i THEN j ELSE j + 1]
         IN  <<items[i]>> \o sorted_by([j \in 1..Len(rest) |-> items[rest[j]]],
                                       [j \in 1..Len(rest) |-> key[rest[j]]])

\* [f(x) for x in items if keep(x)] with the positions kept given as a set
Only(items, kept) ==
    LET Kept(i) == i \in kept
    IN  [n \in 1..Len(SelectSeq([i \in 1..Len(items) |-> i], Kept)) |->
            items[SelectSeq([i \in 1..Len(items) |-> i], Kept)[n]]]

\* data.get(key) on a mapping of the wire
get(data, key) == IF key \in DOMAIN data THEN data[key] ELSE PyNone

\* dataclasses.field: a field of a dataclass, the JSON key of its metadata
\* (the field name if it has none), the origin of its type ("list",
\* "dataclass" or "other") and the class its type names
field(name, json_key, origin, inner) ==
    [name |-> name, json_key |-> json_key, origin |-> origin, inner |-> inner]

\* dataclasses.fields(cls) for the dataclasses of models.responses
fields(cls) ==
    CASE cls = "Status" ->
             <<field("status_code", "statusCode", "other", ""),
               field("message", "statusMessage", "other", ""),
               field("elapsed_time", "elapsedTime", "other", "")>>
      [] cls = "GeogLocation" ->
             <<field("type", "type", "other", ""), field("srs", "srs", "other", ""),
               field("latitude", "latitude", "other", ""),
               field("longitude", "longitude", "other", "")>>
      [] cls = "GeoLocation" ->
             <<field("geog_location", "geogLocation", "dataclass", "GeogLocation")>>
      [] cls = "SiteCode" ->
             <<field("network", "network", "other", ""),
               field("agency_code", "agencyCode", "other", ""),
               field("value", "value", "other", "")>>
      [] cls = "SourceInfo" ->
             <<field("site_name", "siteName", "other", ""),
               field("site_code", "siteCode", "dataclass", "SiteCode"),
               field("geo_location", "geoLocation", "dataclass", "GeoLocation")>>
      [] cls = "PeriodOfRecord" ->
             <<field("por_begin_date", "porBeginDate", "other", ""),
               field("por_last_date", "porLastDate", "other", ""),
               field("provisional_begin_date", "provisionalBeginDate", "other", ""),
               field("provisional_last_date", "provisionalLastDate", "other", ""),
               field("approved_begin_date", "approvedBeginDate", "other", ""),
               field("approved_last_date", "approvedLastDate", "other", "")>>
      [] cls = "ParameterCode" ->
             <<field("parameter_id", "parameterID", "other", ""),
               field("value", "value", "other", "")>>
      [] cls = "Unit" -> <<field("unit_code", "unitCode", "other", "")>>
      [] cls = "Parameter" ->
             <<field("parameter_code", "parameterCode", "dataclass", "ParameterCode"),
               field("parameter_name", "parameterName", "other", ""),
               field("parameter_description", "parameterDescription", "other", ""),
               field("unit", "unit", "dataclass", "Unit"),
               field("no_data_value", "noDataValue", "other", "")>>
      [] cls = "ObservationValue" ->
             <<field("qualifier", "qualifier", "other", ""),
               field("quality_code", "qualityCode", "other", ""),
               field("date_time", "dateTime", "other", ""),
               field("value", "value", "other", ""),
               field("percent_available", "percentAvailable", "other", "")>>
      [] cls = "ReferenceElevation" -> <<field("values", "values", "list", "float")>>
      [] cls = "TimeSeriesEntry" ->
             <<field("source_info", "sourceInfo", "dataclass", "SourceInfo"),
               field("period_of_record", "periodOfRecord", "dataclass", "PeriodOfRecord"),
               field("name", "name", "other", ""),
               field("description", "description", "other", ""),
               field("application_name", "applicationName", "other", ""),
               field("recorder_class", "recorderClass", "other", ""),
               field("current_status", "currentStatus", "other", ""),
               field("time_series_id", "timeSeriesId", "other", ""),
               field("reference_elevation", "referenceElevation", "dataclass",
                     "ReferenceElevation"),
               field("parameter", "parameter", "dataclass", "Parameter"),
               field("values", "values", "list", "ObservationValue"),
               field("summary", "summary", "other", "Optional[Summary]")>>
      [] cls = "TimeSeriesResponse" ->
             <<field("status", "status", "dataclass", "Status"),
               field("time_series", "timeSeries", "list", "TimeSeriesEntry")>>
      [] cls = "Point" ->
             <<field("value", "value", "other", ""),
               field("timestamp", "timestamp", "other", ""),
               field("ms_since_epoch", "msSinceEpoch", "other", ""),
               field("quality_code", "qualityCode", "other", "")>>
      [] cls = "PointResponse" ->
             <<field("status", "status", "dataclass", "Status"),
               field("points", "points", "list", "Optional[Point]")>>
      [] cls \in {"Tag", "InterpolateTag"} -> <<field("tag", "tag", "other", "")>>
      [] cls = "Timespan" ->
             <<field("scalar", "scalar", "other", ""),
               field("unit_of_time", "unitOfTime", "other", "")>>
      [] cls = "AggregateInterval" ->
             <<field("end_millis_since_epoch", "endMilliSinceEpoch", "other", ""),
               field("statistic_type", "statisticType", "other", ""),
               field("timespan", "timespan", "dataclass", "Timespan"),
               field("start_millis_since_epoch", "startMilliSinceEpoch", "other", ""),
               field("value", "value", "other", ""),
               field("key", "key", "other", ""),
               field("tag", "tag", "dataclass", "Tag"),
               field("end_date", "endDate", "other", ""),
               field("start_date", "startDate", "other", ""),
               field("key_type", "keyType", "other", ""),
               field("quality_code", "qualityCode", "other", ""),
               field("percent_available", "percentAvailable", "other", ""),
               field("origin", "origin", "other", "")>>
      [] cls = "AggregateResponse" ->
             <<field("intervals", "intervals", "list", "AggregateInterval")>>
      [] cls = "InterpolateEntry" ->
             <<field("origin", "origin", "other", ""),
               field("key", "key", "other", ""),
               field("key_type", "keyType", "other", ""),
               field("ms_since_epoch", "msSinceEpoch", "other", ""),
               field("value", "value", "other", ""),
               field("tag", "tag", "dataclass", "InterpolateTag"),
               field("quality_code", "qualityCode", "other", ""),
               field("percent_available", "percentAvailable", "other", ""),
               field("time", "time", "other", ""),
               field("date", "date", "other", "")>>
      [] cls = "InterpolateResponse" ->
             <<field("entries", "list", "list", "InterpolateEntry")>>

\* is_dataclass(inner_type) for the type arguments of the list fields
is_dataclass(cls) == cls \in {"ObservationValue", "TimeSeriesEntry", "AggregateInterval", "InterpolateEntry"}

RECURSIVE dataclass_from_dict(_, _)
RECURSIVE _create_dataclass_instance(_, _)
RECURSIVE from_dict(_, _)

\* a dataclass_from_dict that leaves a missing list as None
dataclass_from_dict_without_list_default(cls, data) ==
    [name \in {"t"} \cup {fields(cls)[i].name : i \in 1..Len(fields(cls))} |->
        IF name = "t" THEN cls ELSE
        LET f == fields(cls)[CHOOSE i \in 1..Len(fields(cls)) : fields(cls)[i].name = name]
        IN  IF get(data, f.json_key).t = "none" THEN PyNone
            ELSE IF f.origin = "list"
            THEN IF is_dataclass(f.inner)
                 THEN PyList([i \in 1..Len(get(data, f.json_key).items) |->
                                 _create_dataclass_instance(
                                     f.inner, get(data, f.json_key).items[i])])
                 ELSE PyList(get(data, f.json_key).items)
            ELSE IF f.origin = "dataclass"
            THEN _create_dataclass_instance(f.inner, get(data, f.json_key))
            ELSE get(data, f.json_key)]

\* utils.dataclass_from_dict for a mapping data
dataclass_from_dict(cls, data) ==
    [name \in {"t"} \cup {fields(cls)[i].name : i \in 1..Len(fields(cls))} |->
        IF name = "t" THEN cls ELSE
        LET f == fields(cls)[CHOOSE i \in 1..Len(fields(cls)) : fields(cls)[i].name = name]
        IN  IF get(data, f.json_key).t = "none"
            THEN IF f.origin = "list" THEN PyList(<<>>) ELSE PyNone
            ELSE IF f.origin = "list"
            THEN IF is_dataclass(f.inner)
                 THEN PyList([i \in 1..Len(get(data, f.json_key).items) |->
                                 _create_dataclass_instance(
                                     f.inner, get(data, f.json_key).items[i])])
                 ELSE PyList(get(data, f.json_key).items)
            ELSE IF f.origin = "dataclass"
            THEN _create_dataclass_instance(f.inner, get(data, f.json_key))
            ELSE get(data, f.json_key)]

\* utils._create_dataclass_instance: the from_dict of the class if it has one
_create_dataclass_instance(cls, data) ==
    IF cls \in {"TimeSeriesEntry", "TimeSeriesResponse", "Point", "PointResponse", "Tag",
                "Timespan", "AggregateInterval", "AggregateResponse", "InterpolateTag",
                "InterpolateEntry", "InterpolateResponse"}
    THEN from_dict(cls, data)
    ELSE dataclass_from_dict(cls, data)

\* a from_dict of classes that do not override the generic construction
from_dict_without_overrides(cls, data) == dataclass_from_dict(cls, data)

\* cls.from_dict(data) of the response models that are built from one mapping
from_dict(cls, data) ==
    CASE cls = "TimeSeriesEntry" ->
             \* lines 214-232
             dataclass_from_dict(cls,
                 (IF get(data, "summary").t # "none"
                  THEN ("summary" :> [t |-> "Summary",
                                      min |-> get(get(data, "summary"), "min"),
                                      max |-> get(get(data, "summary"), "max"),
                                      mean |-> get(get(data, "summary"), "mean"),
                                      median |-> get(get(data, "summary"), "median"),
                                      stddev |-> get(get(data, "summary"), "stddev"),
                                      num_of_records |->
                                          get(get(data, "summary"), "numOfRecords")])
                  ELSE <<>>)
                 @@ (IF get(data, "values").t = "none"
                     THEN ("values" :> PyList(<<>>)) ELSE <<>>)
                 @@ data)
      [] cls = "TimeSeriesResponse" ->
             \* lines 255-259
             dataclass_from_dict(cls,
                 (IF get(data, "timeSeries").t = "none"
                  THEN ("timeSeries" :> PyList(<<>>)) ELSE <<>>) @@ data)
      [] cls = "Point" ->
             \* lines 44-47
             IF data.t = "none"
             THEN [t |-> "Point", value |-> PyNone, timestamp |-> PyNone,
                   ms_since_epoch |-> PyNone, quality_code |-> PyNone]
             ELSE dataclass_from_dict(cls, data)
      [] cls = "PointResponse" ->
             \* lines 60-76: a point_item that is neither None nor a mapping
             \* nor a Point is not appended
             LET result == dataclass_from_dict(cls, data)
                 converted_points ==
                     Only(result.points.items,
                          {i \in 1..Len(result.points.items) :
                               result.points.items[i].t \in {"none", "dict"}})
             IN  IF Truthy(result.points)
                 THEN [result EXCEPT !.points =
                          PyList([i \in 1..Len(converted_points) |->
                                     IF converted_points[i].t = "none" THEN PyNone
                                     ELSE from_dict("Point", converted_points[i])])]
                 ELSE result
      [] OTHER -> dataclass_from_dict(cls, data)

\* a or b
Or(a, b) == IF Truthy(a) THEN a ELSE b

\* the getters of models.responses.point.PointResponse that take no argument
PointResponse_get(self_, method) ==
    LET valid_points ==
            Only(self_.points.items,
                 {i \in 1..Len(self_.points.items) : self_.points.items[i].t # "none"})
        \* float('inf'): above every key of the response
        inf == PyFloat(1 + CHOOSE m \in {0} \cup {valid_points[i].timestamp.n : i \in 1..Len(valid_points)}
                                         \cup {valid_points[i].ms_since_epoch.n : i \in 1..Len(valid_points)} :
                               \A i \in 1..Len(valid_points) :
                                   /\ valid_points[i].timestamp.n <= m
                                   /\ valid_points[i].ms_since_epoch.n <= m)
    IN  CASE method = "get_valid_points" -> valid_points
          [] method = "get_quality_codes" ->
                 sorted({valid_points[i].quality_code : i \in 1..Len(valid_points)}
                            \ {PyNone})
          [] method = "get_data_count" -> Len(valid_points)
          [] method = "get_null_count" ->
                 Cardinality({i \in 1..Len(self_.points.items) :
                                  self_.points.items[i].t = "none"})
          [] method = "get_latest_value" ->
                 IF Len(valid_points) = 0 THEN PyNone
                 ELSE max(valid_points,
                          [i \in 1..Len(valid_points) |->
                              Or(valid_points[i].timestamp,
                                 Or(valid_points[i].ms_since_epoch, PyInt(0))).n]).value
          [] method = "get_earliest_value" ->
                 IF Len(valid_points) = 0 THEN PyNone
                 ELSE min(valid_points,
                          [i \in 1..Len(valid_points) |->
                              Or(valid_points[i].timestamp,
                                 Or(valid_points[i].ms_since_epoch, inf)).n]).value

\* a filter_by_quality that keeps the slots that hold no point
PointResponse_filter_by_quality_keeping_none(self_, quality_codes) ==
    [self |-> self_,
     returned |->
         [t |-> "PointResponse", status |-> self_.status,
          points |-> PyList(Only(self_.points.items,
              {i \in 1..Len(self_.points.items) :
                   \/ self_.points.items[i].t = "none"
                   \/ \E j \in 1..Len(quality_codes) :
                          self_.points.items[i].quality_code = quality_codes[j]}))],
     is_self |-> FALSE]

\* PointResponse.filter_by_quality: the response after the call, the response
\* returned, and whether the two are one object
PointResponse_filter_by_quality(self_, quality_codes) ==
    [self |-> self_,
     returned |->
         [t |-> "PointResponse", status |-> self_.status,
          points |-> PyList(Only(self_.points.items,
              {i \in 1..Len(self_.points.items) :
                   /\ self_.points.items[i].t # "none"
                   /\ \E j \in 1..Len(quality_codes) :
                          self_.points.items[i].quality_code = quality_codes[j]}))],
     is_self |-> FALSE]

\* x in values
In(x, values) == \E j \in 1..Len(values) : values[j] = x

\* [item for item in items if item.attr in values]
FilterBy(items, attr, values) == Only(items, {i \in 1..Len(items) : In(items[i][attr], values)})

RECURSIVE dict(_)
\* the mapping that storing the pairs [k, v] in their order builds
dict(pairs) ==
    IF Len(pairs) = 0 THEN <<>>
    ELSE SetItem(dict(SubSeq(pairs, 1, Len(pairs) - 1)),
                 pairs[Len(pairs)].k, pairs[Len(pairs)].v)

\* the getters of models.responses.time_series.TimeSeriesResponse that take
\* no argument
TimeSeriesResponse_get(self_, method) ==
    LET time_series == self_.time_series.items
    IN  CASE method = "get_site_codes" ->
                 [i \in 1..Len(time_series) |-> time_series[i].source_info.site_code.value]
          [] method = "get_site_names" ->
                 [i \in 1..Len(time_series) |-> time_series[i].source_info.site_name]
          [] method = "get_parameter_codes" ->
                 [i \in 1..Len(time_series) |->
                     time_series[i].parameter.parameter_code.value]
          [] method = "get_parameter_names" ->
                 [i \in 1..Len(time_series) |-> time_series[i].parameter.parameter_name]
          [] method = "get_latest_values" ->
                 \* values[-1] of each entry that has values
                 dict(Only([i \in 1..Len(time_series) |->
                               [k |-> time_series[i].source_info.site_code.value,
                                v |-> IF Truthy(time_series[i].values)
                                      THEN time_series[i].values.items[
                                               Len(time_series[i].values.items)].value
                                      ELSE PyNone]],
                           {i \in 1..Len(time_series) :
                                /\ Truthy(time_series[i].values)
                                /\ time_series[i].values.items[
                                       Len(time_series[i].values.items)].value.t # "none"}))
          [] method = "get_data_count" ->
                 Cardinality(UNION {{i} \X (1..Len(time_series[i].values.items)) :
                                        i \in 1..Len(time_series)})
          [] method = "get_data_counts_by_site" ->
                 dict([i \in 1..Len(time_series) |->
                          [k |-> time_series[i].source_info.site_code.value,
                           v |-> Len(time_series[i].values.items)]])

\* TimeSeriesResponse.filter_by_quality
TimeSeriesResponse_filter_by_quality(self_, quality_codes) ==
    LET time_series == self_.time_series.items
    IN  [self |-> self_,
         returned |->
             [t |-> "TimeSeriesResponse", status |-> self_.status,
              time_series |->
                  PyList(Only([i \in 1..Len(time_series) |->
                                  [time_series[i] EXCEPT !.values =
                                      PyList(FilterBy(time_series[i].values.items,
                                                      "quality_code", quality_codes))]],
                              {i \in 1..Len(time_series) :
                                   Len(FilterBy(time_series[i].values.items,
                                                "quality_code", quality_codes)) > 0}))],
         is_self |-> FALSE]

\* the getters of models.responses.aggregate.AggregateResponse that take no
\* argument
AggregateResponse_get(self_, method) ==
    LET intervals == self_.intervals.items
        get_keys == sorted({intervals[i].key : i \in 1..Len(intervals)})
        get_intervals_for_key(key) ==
            sorted_by(FilterBy(intervals, "key", <<key>>),
                      [i \in 1..Len(FilterBy(intervals, "key", <<key>>)) |->
                          FilterBy(intervals, "key", <<key>>)[i].start_millis_since_epoch.n])
    IN  CASE method = "get_keys" -> get_keys
          [] method = "get_statistic_types" ->
                 sorted({intervals[i].statistic_type : i \in 1..Len(intervals)})
          [] method = "get_quality_codes" ->
                 sorted({intervals[i].quality_code : i \in 1..Len(intervals)})
          [] method = "get_origins" ->
                 sorted({intervals[i].origin : i \in 1..Len(intervals)})
          [] method = "get_latest_values_by_key" ->
                 [n \in 1..Len(get_keys) |->
                     [k |-> get_keys[n],
                      v |-> max(get_intervals_for_key(get_keys[n]),
                                [i \in 1..Len(get_intervals_for_key(get_keys[n])) |->
                                    get_intervals_for_key(get_keys[n])[i]
                                        .end_millis_since_epoch.n]).value]]
          [] method = "get_earliest_values_by_key" ->
                 [n \in 1..Len(get_keys) |->
                     [k |-> get_keys[n],
                      v |-> min(get_intervals_for_key(get_keys[n]),
                                [i \in 1..Len(get_intervals_for_key(get_keys[n])) |->
                                    get_intervals_for_key(get_keys[n])[i]
                                        .start_millis_since_epoch.n]).value]]
          [] method = "get_data_count" -> Len(intervals)
          [] method = "get_data_counts_by_key" ->
                 [n \in 1..Len(get_keys) |->
                     [k |-> get_keys[n], v |-> Len(get_intervals_for_key(get_keys[n]))]]

\* a filter of AggregateResponse that removes the intervals from the response
\* it is called on and returns that response
AggregateResponse_filter_in_place(self_, method, values) ==
    LET attr == CASE method = "filter_by_key" -> "key"
                  [] method = "filter_by_statistic" -> "statistic_type"
                  [] method = "filter_by_quality" -> "quality_code"
                  [] method = "filter_by_origin" -> "origin"
    IN  [self |-> [self_ EXCEPT !.intervals = PyList(FilterBy(self_.intervals.items, attr, values))],
         returned |-> [self_ EXCEPT !.intervals = PyList(FilterBy(self_.intervals.items, attr, values))],
         is_self |-> TRUE]

\* AggregateResponse.filter_by_key, filter_by_statistic, filter_by_quality
\* and filter_by_origin
AggregateResponse_filter(self_, method, values) ==
    LET attr == CASE method = "filter_by_key" -> "key"
                  [] method = "filter_by_statistic" -> "statistic_type"
                  [] method = "filter_by_quality" -> "quality_code"
                  [] method = "filter_by_origin" -> "origin"
    IN  [self |-> self_,
         returned |-> [t |-> "AggregateResponse",
                       intervals |-> PyList(FilterBy(self_.intervals.items, attr, values))],
         is_self |-> FALSE]

\* the getters of models.responses.interpolate.InterpolateResponse that take
\* no argument
InterpolateResponse_get(self_, method) ==
    LET entries == self_.entries.items
        get_keys == sorted({entries[i].key : i \in 1..Len(entries)})
        get_entries_for_key(key) == FilterBy(entries, "key", <<key>>)
    IN  CASE method = "get_keys" -> get_keys
          [] method = "get_quality_codes" ->
                 sorted({entries[i].quality_code : i \in 1..Len(entries)})
          [] method = "get_origins" ->
                 sorted({entries[i].origin : i \in 1..Len(entries)})
          [] method = "get_key_types" ->
                 sorted({entries[i].key_type : i \in 1..Len(entries)})
          [] method = "get_latest_value_by_key" ->
                 [n \in 1..Len(get_keys) |->
                     [k |-> get_keys[n],
                      v |-> max(get_entries_for_key(get_keys[n]),
                                [i \in 1..Len(get_entries_for_key(get_keys[n])) |->
                                    get_entries_for_key(get_keys[n])[i].ms_since_epoch.n])
                                .value]]
          [] method = "get_earliest_value_by_key" ->
                 [n \in 1..Len(get_keys) |->
                     [k |-> get_keys[n],
                      v |-> min(get_entries_for_key(get_keys[n]),
                                [i \in 1..Len(get_entries_for_key(get_keys[n])) |->
                                    get_entries_for_key(get_keys[n])[i].ms_since_epoch.n])
                                .value]]
          [] method = "get_data_count" -> Len(entries)
          [] method = "get_data_counts_by_key" ->
                 [n \in 1..Len(get_keys) |->
                     [k |-> get_keys[n], v |-> Len(get_entries_for_key(get_keys[n]))]]

\* InterpolateResponse.filter_by_key, filter_by_quality and filter_by_origin
InterpolateResponse_filter(self_, method, values) ==
    LET attr == CASE method = "filter_by_key" -> "key"
                  [] method = "filter_by_quality" -> "quality_code"
                  [] method = "filter_by_origin" -> "origin"
    IN  [self |-> self_,
         returned |-> [t |-> "InterpolateResponse",
                       entries |-> PyList(FilterBy(self_.entries.items, attr, values))],
         is_self |-> FALSE]

\* the getters of models.responses.synchronize.SynchronizeResponse that take
\* no argument; stations is the sequence of the entries in the order of the
\* mapping
SynchronizeResponse_get(stations, method) ==
    LET Stamps(n) == [i \in 1..Len(stations[n].values) |->
                         stations[n].values[i].ms_since_epoch.n]
    IN  CASE method = "get_station_ids" ->
                 [n \in 1..Len(stations) |-> stations[n].station_id]
          [] method = "get_quality_codes" ->
                 sorted(UNION {{stations[n].values[i].quality_code :
                                    i \in 1..Len(stations[n].values)} :
                                n \in 1..Len(stations)})
          [] method = "get_origins" ->
                 sorted(UNION {{stations[n].values[i].origin :
                                    i \in 1..Len(stations[n].values)} :
                                n \in 1..Len(stations)})
          [] method = "get_latest_values" ->
                 Only([n \in 1..Len(stations) |->
                          [k |-> stations[n].station_id,
                           v |-> IF Len(stations[n].values) > 0
                                 THEN max(stations[n].values, Stamps(n)).value
                                 ELSE PyNone]],
                      {n \in 1..Len(stations) :
                           /\ Len(stations[n].values) > 0
                           /\ max(stations[n].values, Stamps(n)).value.t # "none"})
          [] method = "get_earliest_values" ->
                 Only([n \in 1..Len(stations) |->
                          [k |-> stations[n].station_id,
                           v |-> IF Len(stations[n].values) > 0
                                 THEN min(stations[n].values, Stamps(n)).value
                                 ELSE PyNone]],
                      {n \in 1..Len(stations) :
                           /\ Len(stations[n].values) > 0
                           /\ min(stations[n].values, Stamps(n)).value.t # "none"})
          [] method = "get_data_count" ->
                 Cardinality(UNION {{n} \X (1..Len(stations[n].values)) :
                                        n \in 1..Len(stations)})
          [] method = "get_data_counts_by_station" ->
                 [n \in 1..Len(stations) |->
                     [k |-> stations[n].station_id, v |-> Len(stations[n].values)]]

\* SynchronizeResponse.filter_by_quality and filter_by_origin
SynchronizeResponse_filter(stations, method, values) ==
    LET attr == CASE method = "filter_by_quality" -> "quality_code"
                  [] method = "filter_by_origin" -> "origin"
    IN  [self |-> stations,
         returned |->
             Only([n \in 1..Len(stations) |->
                      [station_id |-> stations[n].station_id, key |-> stations[n].key,
                       values |-> FilterBy(stations[n].values, attr, values)]],
                  {n \in 1..Len(stations) :
                       Len(FilterBy(stations[n].values, attr, values)) > 0}),
         is_self |-> FALSE]

-----------------------------------------------------------------------------
(* The response models, one document each: from_dict builds the response,   *)
(* then one getter or one filter is called on it.                           *)

\* the longest array of a document
MaxItems == 3

\* the sequences of at most MaxItems elements of a set
UpTo(elements) == UNION {[1..n -> elements] : n \in 0..MaxItems}

\* a JSON object with the given keys
Dict(keys) == [t |-> "dict"] @@ keys

QualityA == PyStr(<<"A">>)

QualityP == PyStr(<<"P">>)

\* the status object of a document
WireStatus == Dict([statusCode |-> PyInt(200), statusMessage |-> PyNone, elapsedTime |-> PyFloat(0)])

\* the elements of a points array: null, points with a timestamp (one of
\* them 0), a point with milliseconds only, a point with a value only, and
\* a number
WirePoints ==
    {PyNone,
     Dict([timestamp |-> PyInt(0), value |-> PyFloat(1), qualityCode |-> QualityA]),
     Dict([timestamp |-> PyInt(5), value |-> PyFloat(2), qualityCode |-> QualityP]),
     Dict([msSinceEpoch |-> PyInt(7), value |-> PyFloat(3), qualityCode |-> QualityA]),
     Dict([value |-> PyFloat(4)]),
     PyInt(5)}

\* the documents of the time series arithmetic endpoint
PointDocuments ==
    {Dict(s @@ p) : s \in {<<>>, [status |-> WireStatus]},
                    p \in {<<>>, [points |-> PyNone]}
                              \cup {[points |-> PyList(items)] : items \in UpTo(WirePoints)}}

\* the longest timeSeries array of a document
MaxSeries == 2

KeyK1 == PyStr(<<"K", "1">>)

KeyK2 == PyStr(<<"K", "2">>)

\* the observations of an entry: dated 1 and 2 January
Observation(day) ==
    Dict([dateTime |-> PyStr(<<"2", "0", "2", "3", "-", "0", "1", "-", "0">> \o NatToStr(day)),
          value |-> PyFloat(day),
          qualityCode |-> IF day = 1 THEN QualityA ELSE QualityP])

\* the entries of a timeSeries array: two sites, the values array missing,
\* null, empty or holding observations in either order, and one entry with
\* a summary
WireSeries ==
    {Dict([sourceInfo |-> Dict([siteName |-> PyStr(<<"s", "i", "t", "e", " ">> \o site),
                                siteCode |-> Dict([value |-> PyStr(<<"S">> \o site)])]),
           parameter |-> Dict([parameterCode |->
                                   Dict([value |-> PyStr(IF site = <<"1">> THEN <<"6", "5">>
                                                         ELSE <<"6", "0">>)]),
                               parameterName |-> PyStr(<<"f", "l", "o", "w">>)])]
              @@ values) :
         site \in {<<"1">>, <<"2">>},
         values \in {<<>>, [values |-> PyNone], [summary |-> Dict([min |-> PyFloat(1)])]}
                        \cup {[values |-> PyList(v)] :
                                  v \in {<<>>, <<Observation(1)>>,
                                         <<Observation(1), Observation(2)>>,
                                         <<Observation(2), Observation(1)>>}}}

\* the documents of the time series endpoints
TimeSeriesDocuments ==
    {Dict([status |-> WireStatus] @@ ts) :
         ts \in {<<>>, [timeSeries |-> PyNone]}
                    \cup {[timeSeries |-> PyList(items)] :
                              items \in UNION {[1..n -> WireSeries] : n \in 0..MaxSeries}}}

\* the intervals of an aggregate document; the fourth ends with the first
\* and starts with the second
WireIntervals ==
    {Dict([key |-> i[1], statisticType |-> PyStr(i[2]), startMilliSinceEpoch |-> PyInt(i[3]),
           endMilliSinceEpoch |-> PyInt(i[4]), value |-> PyFloat(i[5]), qualityCode |-> i[6],
           origin |-> PyStr(i[7]), timespan |-> Dict([scalar |-> PyInt(1)])]) :
         i \in {<<KeyK1, <<"M", "E", "A", "N">>, 0, 9, 1, QualityA, <<"e", "d", "i", "t">>>>,
                <<KeyK1, <<"M", "A", "X">>, 5, 6, 2, QualityP, <<"r", "a", "w">>>>,
                <<KeyK2, <<"M", "E", "A", "N">>, 2, 3, 3, QualityA, <<"r", "a", "w">>>>,
                <<KeyK1, <<"M", "E", "A", "N">>, 5, 9, 4, QualityA, <<"e", "d", "i", "t">>>>}}

\* the documents of the aggregate endpoint
AggregateDocuments ==
    {Dict(i) : i \in {<<>>, [intervals |-> PyNone]}
                         \cup {[intervals |-> PyList(items)] : items \in UpTo(WireIntervals)}}

\* the entries of an interpolate document; the fourth has the timestamp of
\* the second
WireEntries ==
    {Dict([key |-> e[1], keyType |-> PyStr(<<"S", "T", "A", "T", "I", "O", "N">>),
           msSinceEpoch |-> PyInt(e[2]), value |-> PyFloat(e[3]), qualityCode |-> e[4],
           origin |-> PyStr(e[5]), tag |-> Dict([tag |-> PyNone])]) :
         e \in {<<KeyK1, 0, 1, QualityA, <<"e", "d", "i", "t">>>>,
                <<KeyK1, 5, 2, QualityP, <<"r", "a", "w">>>>,
                <<KeyK2, 2, 3, QualityA, <<"r", "a", "w">>>>,
                <<KeyK1, 5, 4, QualityA, <<"e", "d", "i", "t">>>>}}

\* the documents of the interpolate endpoint, whose array is named list
InterpolateDocuments ==
    {Dict(e) : e \in {<<>>, [list |-> PyNone]}
                         \cup {[list |-> PyList(items)] : items \in UpTo(WireEntries)}}

\* the criteria of a filter: none, one value, two values, an unknown value
Criteria(method) ==
    LET known == CASE method = "filter_by_key" -> <<KeyK1, KeyK2>>
                   [] method = "filter_by_statistic" ->
                          <<PyStr(<<"M", "E", "A", "N">>), PyStr(<<"M", "A", "X">>)>>
                   [] method = "filter_by_quality" -> <<QualityA, QualityP>>
                   [] method = "filter_by_origin" ->
                          <<PyStr(<<"e", "d", "i", "t">>), PyStr(<<"r", "a", "w">>)>>
    IN  {<<>>, <<known[1]>>, known, <<PyStr(<<"X">>)>>}

ModelCalls ==
    {UnitCall("PointResponse.from_dict", <<d>>) : d \in PointDocuments}
        \cup {UnitCall("TimeSeriesResponse.from_dict", <<d>>) : d \in TimeSeriesDocuments}
        \cup {UnitCall("AggregateResponse.from_dict", <<d>>) : d \in AggregateDocuments}
        \cup {UnitCall("InterpolateResponse.from_dict", <<d>>) : d \in InterpolateDocuments}
        \cup {UnitCall("SynchronizeResponse.from_dict", <<d>>) : d \in SynchronizeDocuments}

InitModels ==
    /\ self = DbHydroApi("adapter", "test_client_id", "test_client_secret", 1)
    /\ call \in ModelCalls
    /\ nCalls = 0
    /\ transportGets = 0
    /\ repeat = FALSE

\* a method called on the response that from_dict returned
ApplyMethod(constructor, method, arg, done) ==
    /\ call.method = constructor
    /\ nCalls = 1
    /\ call.outcome.exc = "none"
    /\ call' = [call EXCEPT !.result = [received |-> TRUE, method |-> method, arg |-> arg,
                                        self |-> done.self, returned |-> done.returned,
                                        is_self |-> done.is_self]]
    /\ nCalls' = 2
    /\ UNCHANGED <<self, transportGets, repeat>>

\* a getter leaves the response as it is and returns a value
Got(self_, value) == [self |-> self_, returned |-> value, is_self |-> FALSE]

PointResponseFromDict ==
    Apply("PointResponse.from_dict", NoResult,
          [request |-> NoRequest, outcome |-> Ok(from_dict("PointResponse", call.args[1]))])

PointResponseGet ==
    \E method \in {"get_valid_points", "get_quality_codes", "get_data_count",
                   "get_null_count", "get_latest_value", "get_earliest_value"} :
        ApplyMethod("PointResponse.from_dict", method, <<>>,
                    Got(call.outcome.value, PointResponse_get(call.outcome.value, method)))

PointResponseFilterByQuality ==
    \E quality_codes \in Criteria("filter_by_quality") :
        ApplyMethod("PointResponse.from_dict", "filter_by_quality", quality_codes,
                    PointResponse_filter_by_quality(call.outcome.value, quality_codes))

TimeSeriesResponseFromDict ==
    Apply("TimeSeriesResponse.from_dict", NoResult,
          [request |-> NoRequest,
           outcome |-> Ok(from_dict("TimeSeriesResponse", call.args[1]))])

TimeSeriesResponseGet ==
    \E method \in {"get_site_codes", "get_site_names", "get_parameter_codes",
                   "get_parameter_names", "get_latest_values", "get_data_count",
                   "get_data_counts_by_site"} :
        ApplyMethod("TimeSeriesResponse.from_dict", method, <<>>,
                    Got(call.outcome.value, TimeSeriesResponse_get(call.outcome.value, method)))

TimeSeriesResponseFilterByQuality ==
    \E quality_codes \in Criteria("filter_by_quality") :
        ApplyMethod("TimeSeriesResponse.from_dict", "filter_by_quality", quality_codes,
                    TimeSeriesResponse_filter_by_quality(call.outcome.value, quality_codes))

AggregateResponseFromDict ==
    Apply("AggregateResponse.from_dict", NoResult,
          [request |-> NoRequest,
           outcome |-> Ok(from_dict("AggregateResponse", call.args[1]))])

AggregateResponseGet ==
    \E method \in {"get_keys", "get_statistic_types", "get_quality_codes", "get_origins",
                   "get_latest_values_by_key", "get_earliest_values_by_key",
                   "get_data_count", "get_data_counts_by_key"} :
        ApplyMethod("AggregateResponse.from_dict", method, <<>>,
                    Got(call.outcome.value, AggregateResponse_get(call.outcome.value, method)))

AggregateResponseFilter ==
    \E method \in {"filter_by_key", "filter_by_statistic", "filter_by_quality",
                   "filter_by_origin"} :
        \E values \in Criteria(method) :
            ApplyMethod("AggregateResponse.from_dict", method, values,
                        AggregateResponse_filter(call.outcome.value, method, values))

InterpolateResponseFromDict ==
    Apply("InterpolateResponse.from_dict", NoResult,
          [request |-> NoRequest,
           outcome |-> Ok(from_dict("InterpolateResponse", call.args[1]))])

InterpolateResponseGet ==
    \E method \in {"get_keys", "get_quality_codes", "get_origins", "get_key_types",
                   "get_latest_value_by_key", "get_earliest_value_by_key",
                   "get_data_count", "get_data_counts_by_key"} :
        ApplyMethod("InterpolateResponse.from_dict", method, <<>>,
                    Got(call.outcome.value,
                        InterpolateResponse_get(call.outcome.value, method)))

InterpolateResponseFilter ==
    \E method \in {"filter_by_key", "filter_by_quality", "filter_by_origin"} :
        \E values \in Criteria(method) :
            ApplyMethod("InterpolateResponse.from_dict", method, values,
                        InterpolateResponse_filter(call.outcome.value, method, values))

SynchronizeResponseGet ==
    \E method \in {"get_station_ids", "get_quality_codes", "get_origins",
                   "get_latest_values", "get_earliest_values", "get_data_count",
                   "get_data_counts_by_station"} :
        ApplyMethod("SynchronizeResponse.from_dict", method, <<>>,
                    Got(call.outcome.value,
                        SynchronizeResponse_get(call.outcome.value, method)))

SynchronizeResponseFilter ==
    \E method \in {"filter_by_quality", "filter_by_origin"} :
        \E values \in Criteria(method) :
            ApplyMethod("SynchronizeResponse.from_dict", method, values,
                        SynchronizeResponse_filter(call.outcome.value, method, values))

NextModels ==
    \/ PointResponseFromDict
    \/ PointResponseGet
    \/ PointResponseFilterByQuality
    \/ TimeSeriesResponseFromDict
    \/ TimeSeriesResponseGet
    \/ TimeSeriesResponseFilterByQuality
    \/ AggregateResponseFromDict
    \/ AggregateResponseGet
    \/ AggregateResponseFilter
    \/ InterpolateResponseFromDict
    \/ InterpolateResponseGet
    \/ InterpolateResponseFilter
    \/ SynchronizeFromDict
    \/ SynchronizeResponseGet
    \/ SynchronizeResponseFilter

SpecModels == InitModels /\ [][NextModels]_vars

-----------------------------------------------------------------------------
(* Properties                                                               *)

\* the status of the top-level entry of a body that holds a status mapping
StatusOf(data) ==
    IF data.t = "dict"
           /\ \E i \in 1..Len(data.entries) :
                  data.entries[i].v.t = "dict" /\ data.entries[i].v.status.t = "dict"
    THEN data.entries[CHOOSE i \in 1..Len(data.entries) :
                          data.entries[i].v.t = "dict"
                              /\ data.entries[i].v.status.t = "dict"].v.status
    ELSE StatusAbsent

\* s contains "error" in some mixture of upper and lower case
ContainsErrorAnyCase(s) ==
    \E i \in 1..(Len(s) - 4) :
        /\ s[i] \in {"e", "E"}
        /\ s[i + 1] \in {"r", "R"}
        /\ s[i + 2] \in {"r", "R"}
        /\ s[i + 3] \in {"o", "O"}
        /\ s[i + 4] \in {"r", "R"}

\* s is YYYY-MM-DDHH:MM:SS:mmm and names a moment of the calendar
IsCanonicalDate(s) ==
    /\ Len(s) = 22
    /\ s[5] = "-" /\ s[8] = "-" /\ s[13] = ":" /\ s[16] = ":" /\ s[19] = ":"
    /\ \A i \in (1..22) \ {5, 8, 13, 16, 19} : IsDigit(s[i])
    /\ ToInt(SubSeq(s, 1, 4)) >= 1
    /\ ToInt(SubSeq(s, 6, 7)) \in 1..12
    /\ ToInt(SubSeq(s, 9, 10)) \in 1..31
    /\ ToInt(SubSeq(s, 11, 12)) \in 0..23
    /\ ToInt(SubSeq(s, 14, 15)) \in 0..59
    /\ ToInt(SubSeq(s, 17, 18)) \in 0..59

C3_OnlyDbHydroExceptionEscapes ==
    call.gets > 0 => call.outcome.kind \in {"return", "DbHydroException"}

\* C4: when the Result has status code 0 the caller sees DbHydroException
\* with the Result's message and no Service details, whatever the data are.
C4_SentinelRaisesTransportMessage ==
    (call.gets > 0 /\ call.result.status_code = 0) =>
        call.outcome = DbHydroException(call.result.message, PyNone, PyNone, PyNone,
                                        PyNone)

\* status code 0 together with a body that embeds a Service error
C4_Witness ==
    /\ call.gets = 1
    /\ call.result.status_code = 0
    /\ StatusOf(call.result.data) = StatusDict(PyInt(500), TextErrorMixed, PyFloat(1))
    /\ call.outcome.kind = "DbHydroException"
    /\ call.outcome.message = MsgRequestFailed

\* C5: when the body holds a status whose statusCode is an integer outside
\* [200, 300) and the HTTP status is not the sentinel, the caller sees
\* DbHydroException carrying that code and the status's message.
C5_NestedCodeOutsideRangeRaises ==
    (/\ call.gets > 0
     /\ call.result.status_code # 0
     /\ StatusOf(call.result.data).statusCode.t = "int"
     /\ \/ StatusOf(call.result.data).statusCode.n < 200
        \/ StatusOf(call.result.data).statusCode.n >= 300) =>
        /\ call.outcome.kind = "DbHydroException"
        /\ call.outcome.api_status_code = StatusOf(call.result.data).statusCode
        /\ call.outcome.api_status_message =
               GetOr(StatusOf(call.result.data).statusMessage, PyStr(<<>>))

\* C6: a Result whose status code is neither 0 nor in [200, 300) ends in
\* DbHydroException whose http_status_code is that code, for every body.
C6_HttpErrorRaises ==
    (/\ call.gets > 0
     /\ call.result.status_code # 0
     /\ (call.result.status_code < 200 \/ call.result.status_code >= 300)) =>
        /\ call.outcome.kind = "DbHydroException"
        /\ call.outcome.http_status_code = PyInt(call.result.status_code)

\* a redirect status with a null body
C6_Witness ==
    /\ call.gets = 1
    /\ call.result.status_code = 301
    /\ call.result.data = NullBody
    /\ call.outcome.kind = "DbHydroException"
    /\ call.outcome.http_status_code = PyInt(301)
    /\ call.outcome.api_status_code = PyNone

\* C7: when the HTTP status is in [200, 300) and the body's status has a
\* statusCode in [200, 300) and a statusMessage that contains "error" in any
\* letter case, the caller sees DbHydroException carrying that message.
C7_ErrorMessageRaises ==
    (/\ call.gets > 0
     /\ call.result.status_code \in 200..299
     /\ StatusOf(call.result.data).statusCode.t = "int"
     /\ StatusOf(call.result.data).statusCode.n \in 200..299
     /\ StatusOf(call.result.data).statusMessage.t = "str"
     /\ ContainsErrorAnyCase(StatusOf(call.result.data).statusMessage.s)) =>
        /\ call.outcome.kind = "DbHydroException"
        /\ call.outcome.api_status_message = StatusOf(call.result.data).statusMessage
        /\ call.outcome.api_status_code = StatusOf(call.result.data).statusCode

\* HTTP 200, statusCode 200, and a message that says ERROR in capitals
C7_Witness ==
    /\ call.gets = 1
    /\ call.result.status_code = 200
    /\ StatusOf(call.result.data) = StatusDict(PyInt(200), TextErrorUpper, PyFloat(0))
    /\ call.outcome.kind = "DbHydroException"
    /\ call.outcome.api_status_message = TextErrorUpper

WaterQualityArgsValid(a) ==
    /\ \/ (a.project_code.t = "str" /\ Len(strip(a.project_code.s)) > 0)
       \/ a.test_number.t # "none"
       \/ (a.station.t = "str" /\ Len(strip(a.station.s)) > 0)
    /\ a.test_number.t \in {"none", "int"}
    /\ \/ a.dates[1].t = "none" /\ a.dates[2].t = "none"
       \/ /\ a.dates[1].t # "none"
          /\ a.dates[2].t # "none"
          /\ _handle_date_parameters(a.dates[1], a.dates[2]).exc = "none"

\* C9: get_water_quality issues no GET; it raises NotImplementedError when
\* its arguments are valid and ValueError when they are not.
C9_WaterQualityValidatesFirst ==
    call.method = "get_water_quality" =>
        /\ call.gets = 0
        /\ call.outcome.kind =
               IF WaterQualityArgsValid(call.args) THEN "NotImplementedError"
               ELSE "ValueError"

\* C10: every date parameter of a request handed to the transport is a
\* canonical date string.
C10_OnlyCanonicalDatesAreSent ==
    call.request.sent =>
        \A k \in DOMAIN call.request.params \cap
                  {"beginDateTime", "endDateTime", "dateTime", "timestamp"} :
            IsCanonicalDate(call.request.params[k].s)

\* s has the form YYYY-MM-DDHH:MM:SS:SSS: ten characters of date, then a
\* time with exactly three colons that ends in three digits of milliseconds
HasCanonicalForm(s) ==
    /\ Len(s) = 22
    /\ s[5] = "-" /\ s[8] = "-" /\ s[13] = ":" /\ s[16] = ":" /\ s[19] = ":"
    /\ \A i \in (1..22) \ {5, 8, 13, 16, 19} : IsDigit(s[i])

\* C11: every string that _parse_date returns, for a datetime or for a
\* string it accepts, has the form YYYY-MM-DDHH:MM:SS:SSS.
C11_ParseDateReturnsCanonicalForm ==
    (call.method = "_parse_date" /\ call.outcome.exc = "none") =>
        HasCanonicalForm(call.outcome.value)

\* C12: for two bounds that denote moments, _handle_date_parameters raises
\* ValueError when the start is later than the end and otherwise returns the
\* pair of the two _parse_date results; equal bounds yield two identical
\* strings of the canonical form.
C12_RangeIsOrderedAndCanonical ==
    (/\ call.method = "_handle_date_parameters"
     /\ nCalls = 1
     /\ _parse_date(call.args[1]).exc = "none"
     /\ _parse_date(call.args[2]).exc = "none"
     /\ strptime(_parse_date(call.args[1]).value).exc = "none"
     /\ strptime(_parse_date(call.args[2]).value).exc = "none") =>
        IF Later(strptime(_parse_date(call.args[1]).value).value,
                 strptime(_parse_date(call.args[2]).value).value)
        THEN call.outcome.exc = "ValueError"
        ELSE /\ call.outcome.exc = "none"
             /\ call.outcome.value = <<_parse_date(call.args[1]).value,
                                       _parse_date(call.args[2]).value>>
             /\ strptime(_parse_date(call.args[1]).value).value
                    = strptime(_parse_date(call.args[2]).value).value =>
                    /\ call.outcome.value[1] = call.outcome.value[2]
                    /\ HasCanonicalForm(call.outcome.value[1])

\* C16: _validate_calculation_parameters returns exactly when calculation and
\* timespan_unit are both None, or calculation is a valid calculation and
\* timespan_unit a valid unit, and timespan_value is None or a positive
\* integer; in every other case it raises ValueError.
C16_CalculationParametersAcceptedExactly ==
    (call.method = "_validate_calculation_parameters" /\ nCalls = 1) =>
        call.outcome.exc =
            IF /\ \/ call.args[1].t = "none" /\ call.args[2].t = "none"
                  \/ /\ call.args[1].t # "none"
                     /\ call.args[1].w \in call.args[4]
                     /\ call.args[2].t # "none"
                     /\ call.args[2].w \in call.args[5]
               /\ \/ call.args[3].t = "none"
                  \/ call.args[3].t = "int" /\ call.args[3].n > 0
            THEN "none"
            ELSE "ValueError"

C16_Witness ==
    /\ call.method = "_validate_calculation_parameters"
    /\ nCalls = 1
    /\ call.args[1] = PyWord("MEAN")
    /\ call.args[2] = PyWord("DAY")
    /\ call.args[3] = PyInt(30)
    /\ call.outcome.exc = "none"

IdListOf(c) ==
    CASE c.method = "get_time_series" -> c.args.site_ids
      [] c.method = "get_nexrad_pixel_data" -> c.args.pixel_ids
      [] c.method = "get_synchronize" -> c.args.time_series_names
      [] OTHER -> c.args.identifiers

\* C13: in every method that takes a list of identifiers, an empty list is
\* rejected with ValueError, and a list that holds an element that is no
\* non-blank string is rejected with a ValueError whose message names such
\* an element; neither reaches the transport.
C13_IdListsAreCheckedElementwise ==
    (nCalls > 0 /\ IdListOf(call).t = "list") =>
        /\ Len(IdListOf(call).items) = 0 =>
               call.outcome.kind = "ValueError" /\ call.gets = 0
        /\ HasBadElement(IdListOf(call)) =>
               /\ call.outcome.kind = "ValueError"
               /\ call.gets = 0
               /\ \E i \in 1..Len(IdListOf(call).items) :
                      /\ ~IsNonBlankStr(IdListOf(call).items[i])
                      /\ call.outcome.message = str(IdListOf(call).items[i])

C13_Witness ==
    /\ call.method = "get_nexrad_polygon_data"
    /\ call.args.identifiers = PyList(<<IdBlank, IdS1>>)
    /\ call.outcome.kind = "ValueError"
    /\ call.outcome.message = IdBlank.s
    /\ call.gets = 0

\* C14: an identifier list that is no list of strings is rejected with
\* ValueError before any GET: a bare string as identifiers of get_daily_data
\* or as time_series_names of get_synchronize, and a set, mapping or number
\* as site_ids of get_time_series.
C14_NonListIdentifiersAreRejected ==
    (\/ call.method \in {"get_daily_data", "get_synchronize"} /\ IdListOf(call).t = "str"
     \/ call.method = "get_time_series" /\ IdListOf(call).t \in {"set", "dict", "int"}) =>
        call.outcome.kind = "ValueError" /\ call.gets = 0

\* C15: get_time_series takes a bare string for a list of one site id and
\* strips each site id: the names parameter of its request is the
\* comma-join of the trimmed ids.
C15_SiteIdsAreNormalised ==
    (/\ call.method = "get_time_series"
     /\ \/ IsNonBlankStr(call.args.site_ids)
        \/ /\ call.args.site_ids.t = "list"
           /\ Len(call.args.site_ids.items) > 0
           /\ ~HasBadElement(call.args.site_ids)) =>
        /\ call.request.sent
        /\ call.request.params["names"] =
               PyStr(join(<<",">>,
                          IF call.args.site_ids.t = "str"
                          THEN <<strip(call.args.site_ids.s)>>
                          ELSE [i \in 1..Len(call.args.site_ids.items) |->
                                   strip(call.args.site_ids.items[i].s)]))

\* C18: every request of get_daily_data carries includeSummary=N; with
\* include_summary true and arguments that are otherwise valid the method
\* warns and still sends its one request, and it warns in no other case.
C18_SummaryIsNeverRequested ==
    call.method = "get_daily_data" =>
        /\ call.request.sent => call.request.params["includeSummary"] = PyWord("N")
        /\ call.warned => call.args.include_summary /\ call.request.sent
        /\ (/\ call.args.include_summary
            /\ call.args.identifiers.t = "list"
            /\ Len(call.args.identifiers.items) > 0
            /\ ~HasBadElement(call.args.identifiers)) =>
               /\ call.warned
               /\ call.gets = 1
               /\ call.outcome.kind = "return"

C18_Witness ==
    /\ call.method = "get_daily_data"
    /\ call.args.include_summary
    /\ call.warned
    /\ call.gets = 1
    /\ call.request.params["includeSummary"] = PyWord("N")
    /\ call.outcome.kind = "return"

\* C19: in get_water_quality a date bound that is given needs the other one
\* and the two must form a valid range: every other combination of bounds
\* raises ValueError, and a valid pair with valid other arguments reaches
\* NotImplementedError.
C19_DateBoundsComeInValidPairs ==
    (/\ call.method = "get_water_quality"
     /\ (call.args.dates[1].t # "none" \/ call.args.dates[2].t # "none")) =>
        IF /\ call.args.dates[1].t # "none"
           /\ call.args.dates[2].t # "none"
           /\ _handle_date_parameters(call.args.dates[1], call.args.dates[2]).exc = "none"
        THEN WaterQualityArgsValid(call.args) => call.outcome.kind = "NotImplementedError"
        ELSE call.outcome.kind = "ValueError"

\* C28: _parse_date is idempotent on its own output: when it accepts an
\* input, it accepts the string it returned for it and returns that string
\* unchanged.
C28_ParseDateIsIdempotent ==
    (call.method = "_parse_date" /\ nCalls = 2) =>
        /\ call.result.exc = "none"
        /\ call.result.value = call.outcome.value

\* C27: the default transport leaves the headers mapping of its caller as it
\* is: when get, post or delete has returned, the mapping holds the keys and
\* values it held before the call.
C27_CallerHeadersAreLeftAlone ==
    [][(/\ call.method \in {"RestAdapterRequests.get", "RestAdapterRequests.post",
                            "RestAdapterRequests.delete"}
        /\ nCalls = 0
        /\ nCalls' = 1) => call'.args[3] = call.args[3]]_vars

\* C26: error detection examines every top-level entry of the body: when the
\* body holds an entry that _check_api_response takes for an error if it is
\* the only entry of the body, DbHydroException is raised whatever the other
\* entry holds and whichever of the two comes first.
C26_EveryTopLevelEntryIsExamined ==
    (call.method = "_check_api_response" /\ nCalls = 1) =>
        ((\E i \in 1..Len(call.args[1].entries) :
              _check_api_response(DictBody(<<call.args[1].entries[i]>>), 200).kind
                  = "DbHydroException")
             => call.outcome.kind = "DbHydroException")

\* the response that from_dict returned
Response == call.outcome.value

\* the points array of the document of a PointResponse.from_dict call
WirePointsOf == get(call.args[1], "points")

\* every element of the points array of the document is null or an object
PointsAreObjectsOrNull ==
    /\ WirePointsOf.t = "list"
    /\ \A i \in 1..Len(WirePointsOf.items) : WirePointsOf.items[i].t \in {"none", "dict"}

\* C21: PointResponse.from_dict maps a points array of objects and nulls
\* element for element: the result has the length of the array, slot i is
\* None exactly when element i is null and is a Point otherwise, and
\* get_null_count() is the number of null elements.
C21_PointsAreMappedElementForElement ==
    (call.method = "PointResponse.from_dict" /\ nCalls >= 1 /\ PointsAreObjectsOrNull) =>
        /\ call.outcome.exc = "none"
        /\ Len(Response.points.items) = Len(WirePointsOf.items)
        /\ \A i \in 1..Len(WirePointsOf.items) :
               IF WirePointsOf.items[i].t = "none"
               THEN Response.points.items[i].t = "none"
               ELSE /\ Response.points.items[i].t = "Point"
                    /\ Response.points.items[i].value = get(WirePointsOf.items[i], "value")
        /\ PointResponse_get(Response, "get_null_count")
               = Cardinality({i \in 1..Len(WirePointsOf.items) :
                                  WirePointsOf.items[i].t = "none"})

\* a document whose points array holds a point and then a null has been built
C21_Witness ==
    /\ call.method = "PointResponse.from_dict"
    /\ nCalls = 1
    /\ PointsAreObjectsOrNull
    /\ Len(WirePointsOf.items) = 2
    /\ WirePointsOf.items[1].t = "dict"
    /\ WirePointsOf.items[2].t = "none"
    /\ Response.points.items[2].t = "none"
    /\ PointResponse_get(Response, "get_null_count") = 1

\* C30: for the PointResponse that from_dict returns and for the one that
\* filter_by_quality returns, get_data_count() + get_null_count() is the
\* length of points; the response that filter_by_quality returns has
\* get_null_count() = 0.
C30_DataAndNullCountsPartitionThePoints ==
    (call.method = "PointResponse.from_dict" /\ nCalls >= 1) =>
        /\ PointResponse_get(Response, "get_data_count")
               + PointResponse_get(Response, "get_null_count")
               = Len(Response.points.items)
        /\ (nCalls = 2 /\ call.result.method = "filter_by_quality") =>
               /\ PointResponse_get(call.result.returned, "get_data_count")
                      + PointResponse_get(call.result.returned, "get_null_count")
                      = Len(call.result.returned.points.items)
               /\ PointResponse_get(call.result.returned, "get_null_count") = 0

\* a response with a None slot and a point of quality A has been filtered
\* by quality A
C30_Witness ==
    /\ call.method = "PointResponse.from_dict"
    /\ nCalls = 2
    /\ call.result.method = "filter_by_quality"
    /\ call.result.arg = <<QualityA>>
    /\ PointResponse_get(Response, "get_null_count") > 0
    /\ PointResponse_get(Response, "get_data_count") > 0
    /\ Len(call.result.returned.points.items) > 0

\* the list-typed field of a response model and the key of its array
ListField(constructor) ==
    CASE constructor = "PointResponse.from_dict" -> [name |-> "points", json_key |-> "points"]
      [] constructor = "TimeSeriesResponse.from_dict" ->
             [name |-> "time_series", json_key |-> "timeSeries"]
      [] constructor = "AggregateResponse.from_dict" ->
             [name |-> "intervals", json_key |-> "intervals"]
      [] constructor = "InterpolateResponse.from_dict" ->
             [name |-> "entries", json_key |-> "list"]

\* the constructors of the models that are built from one JSON object
Constructors ==
    {"PointResponse.from_dict", "TimeSeriesResponse.from_dict", "AggregateResponse.from_dict",
     "InterpolateResponse.from_dict"}

\* C25: after from_dict the list-typed fields of a response model
\* (time_series, values of each entry, points, intervals, entries) are
\* lists; an array that is missing from the document or null gives an empty
\* list, and from_dict raises nothing.
C25_ListFieldsAreAlwaysLists ==
    (call.method \in Constructors /\ nCalls >= 1) =>
        /\ call.outcome.exc = "none"
        /\ Response[ListField(call.method).name].t = "list"
        /\ get(call.args[1], ListField(call.method).json_key).t = "none"
               => Response[ListField(call.method).name] = PyList(<<>>)
        /\ call.method = "TimeSeriesResponse.from_dict" =>
               \A i \in 1..Len(Response.time_series.items) :
                   /\ Response.time_series.items[i].values.t = "list"
                   /\ get(get(call.args[1], "timeSeries").items[i], "values").t = "none"
                          => Response.time_series.items[i].values = PyList(<<>>)

\* a time series document whose first entry has a null values array and
\* whose second has none has been built
C25_Witness ==
    /\ call.method = "TimeSeriesResponse.from_dict"
    /\ nCalls = 1
    /\ Len(Response.time_series.items) = 2
    /\ "values" \in DOMAIN get(call.args[1], "timeSeries").items[1]
    /\ get(call.args[1], "timeSeries").items[1].values.t = "none"
    /\ "values" \notin DOMAIN get(call.args[1], "timeSeries").items[2]
    /\ Response.time_series.items[1].values = PyList(<<>>)
    /\ Response.time_series.items[2].values = PyList(<<>>)

\* the entries of a response: points, series, intervals, entries or stations
EntriesOf(constructor, response) ==
    IF constructor = "SynchronizeResponse.from_dict" THEN response
    ELSE response[ListField(constructor).name].items

StrictlyAscending(strings) ==
    \A i \in 1..(Len(strings) - 1) : StrLess(strings[i], strings[i + 1])

\* C23: every extraction of the unique keys, sites, parameters, origins,
\* quality codes or statistic types of a response returns a sequence sorted
\* ascending by string order without duplicates, whatever the order and
\* multiplicity of the entries.
C23_UniqueExtractionsAreSortedAndDistinct ==
    (/\ call.method \in Constructors \cup {"SynchronizeResponse.from_dict"}
     /\ nCalls = 2
     /\ call.result.method \in {"get_keys", "get_site_codes", "get_site_names",
                                "get_parameter_codes", "get_parameter_names", "get_origins",
                                "get_quality_codes", "get_statistic_types"}) =>
        StrictlyAscending(call.result.returned)

\* the sorting extractions alone: those of the aggregate, interpolate,
\* synchronize and point responses
SortingExtractionsAreSortedAndDistinct ==
    (/\ call.method \in (Constructors \ {"TimeSeriesResponse.from_dict"})
                            \cup {"SynchronizeResponse.from_dict"}
     /\ nCalls = 2
     /\ call.result.method \in {"get_keys", "get_origins", "get_quality_codes",
                                "get_statistic_types"}) =>
        StrictlyAscending(call.result.returned)

\* value is the value of an item whose stamp is the largest (the smallest,
\* for the earliest) of the stamps; stamps[i] is the timestamp of items[i]
IsValueAtExtreme(value, items, stamps, latest) ==
    \E i \in 1..Len(items) :
        /\ items[i].value = value
        /\ \A j \in 1..Len(items) :
               IF latest THEN stamps[j] <= stamps[i] ELSE stamps[j] >= stamps[i]

\* the latest and earliest value of a point response whose points all carry
\* a timestamp
PointExtremesFollowTimestamps ==
    (/\ call.method = "PointResponse.from_dict"
     /\ nCalls = 2
     /\ call.result.method \in {"get_latest_value", "get_earliest_value"}
     /\ Len(PointResponse_get(Response, "get_valid_points")) > 0
     /\ \A i \in 1..Len(PointResponse_get(Response, "get_valid_points")) :
            PointResponse_get(Response, "get_valid_points")[i].timestamp.t = "int") =>
        IsValueAtExtreme(call.result.returned,
                         PointResponse_get(Response, "get_valid_points"),
                         [i \in 1..Len(PointResponse_get(Response, "get_valid_points")) |->
                             PointResponse_get(Response, "get_valid_points")[i].timestamp.n],
                         call.result.method = "get_latest_value")

\* the latest value of each site is that of an observation of the site that
\* no observation of the site is dated after
TimeSeriesLatestFollowsDates ==
    (/\ call.method = "TimeSeriesResponse.from_dict"
     /\ nCalls = 2
     /\ call.result.method = "get_latest_values") =>
        \A n \in 1..Len(call.result.returned) :
            \E i \in 1..Len(Response.time_series.items) :
                /\ Response.time_series.items[i].source_info.site_code.value
                       = call.result.returned[n].k
                /\ \E a \in 1..Len(Response.time_series.items[i].values.items) :
                       /\ Response.time_series.items[i].values.items[a].value
                              = call.result.returned[n].v
                       /\ \A j \in 1..Len(Response.time_series.items) :
                              Response.time_series.items[j].source_info.site_code.value
                                      = call.result.returned[n].k
                                  => \A b \in 1..Len(Response.time_series.items[j].values.items) :
                                         ~StrLess(
                                             Response.time_series.items[i].values.items[a].date_time,
                                             Response.time_series.items[j].values.items[b].date_time)

\* the latest value of each key is that of an interval of the key with the
\* largest end, the earliest that of one with the smallest start
AggregateExtremesFollowTimestamps ==
    (/\ call.method = "AggregateResponse.from_dict"
     /\ nCalls = 2
     /\ call.result.method \in {"get_latest_values_by_key", "get_earliest_values_by_key"}) =>
        \A n \in 1..Len(call.result.returned) :
            IsValueAtExtreme(
                call.result.returned[n].v,
                FilterBy(Response.intervals.items, "key", <<call.result.returned[n].k>>),
                [i \in 1..Len(FilterBy(Response.intervals.items, "key",
                                       <<call.result.returned[n].k>>)) |->
                    IF call.result.method = "get_latest_values_by_key"
                    THEN FilterBy(Response.intervals.items, "key",
                                  <<call.result.returned[n].k>>)[i].end_millis_since_epoch.n
                    ELSE FilterBy(Response.intervals.items, "key",
                                  <<call.result.returned[n].k>>)[i].start_millis_since_epoch.n],
                call.result.method = "get_latest_values_by_key")

\* the latest value of each key is that of an entry of the key with the
\* largest timestamp, the earliest that of one with the smallest
InterpolateExtremesFollowTimestamps ==
    (/\ call.method = "InterpolateResponse.from_dict"
     /\ nCalls = 2
     /\ call.result.method \in {"get_latest_value_by_key", "get_earliest_value_by_key"}) =>
        \A n \in 1..Len(call.result.returned) :
            IsValueAtExtreme(
                call.result.returned[n].v,
                FilterBy(Response.entries.items, "key", <<call.result.returned[n].k>>),
                [i \in 1..Len(FilterBy(Response.entries.items, "key",
                                       <<call.result.returned[n].k>>)) |->
                    FilterBy(Response.entries.items, "key",
                             <<call.result.returned[n].k>>)[i].ms_since_epoch.n],
                call.result.method = "get_latest_value_by_key")

\* the latest value of each station is that of a value of the station with
\* the largest timestamp, the earliest that of one with the smallest
SynchronizeExtremesFollowTimestamps ==
    (/\ call.method = "SynchronizeResponse.from_dict"
     /\ nCalls = 2
     /\ call.result.method \in {"get_latest_values", "get_earliest_values"}) =>
        \A n \in 1..Len(call.result.returned) :
            \E m \in 1..Len(Response) :
                /\ Response[m].station_id = call.result.returned[n].k
                /\ IsValueAtExtreme(call.result.returned[n].v, Response[m].values,
                                    [i \in 1..Len(Response[m].values) |->
                                        Response[m].values[i].ms_since_epoch.n],
                                    call.result.method = "get_latest_values")

\* C24: in every response family the latest value (per key, station or
\* site) is the value of an entry whose timestamp is maximal among the
\* entries of that key, and the earliest value that of an entry whose
\* timestamp is minimal, whatever the order of the entries in the response.
C24_LatestAndEarliestFollowTimestamps ==
    /\ PointExtremesFollowTimestamps
    /\ TimeSeriesLatestFollowsDates
    /\ AggregateExtremesFollowTimestamps
    /\ InterpolateExtremesFollowTimestamps
    /\ SynchronizeExtremesFollowTimestamps

RECURSIVE SumOfCounts(_)
\* the sum of the values of a mapping of counts
SumOfCounts(counts) ==
    IF Len(counts) = 0 THEN 0 ELSE counts[1].v + SumOfCounts(Tail(counts))

\* get_data_count() of a response
DataCount(constructor, response) ==
    CASE constructor = "TimeSeriesResponse.from_dict" ->
             TimeSeriesResponse_get(response, "get_data_count")
      [] constructor = "AggregateResponse.from_dict" ->
             AggregateResponse_get(response, "get_data_count")
      [] constructor = "InterpolateResponse.from_dict" ->
             InterpolateResponse_get(response, "get_data_count")
      [] constructor = "SynchronizeResponse.from_dict" ->
             SynchronizeResponse_get(response, "get_data_count")

\* C29: in every response family the counts of get_data_counts_by_key,
\* get_data_counts_by_site and get_data_counts_by_station add up to
\* get_data_count(), also when entries share a key or a site code.
C29_GroupedCountsAddUpToTheTotal ==
    (/\ nCalls = 2
     /\ call.method \in {"TimeSeriesResponse.from_dict", "AggregateResponse.from_dict",
                         "InterpolateResponse.from_dict", "SynchronizeResponse.from_dict"}
     /\ call.result.method \in {"get_data_counts_by_key", "get_data_counts_by_site",
                                "get_data_counts_by_station"}) =>
        SumOfCounts(call.result.returned) = DataCount(call.method, Response)

\* the grouped counts of the aggregate, interpolate and synchronize
\* responses add up to the total
CountsByKeyAndStationAddUp ==
    (/\ nCalls = 2
     /\ call.method \in {"AggregateResponse.from_dict", "InterpolateResponse.from_dict",
                         "SynchronizeResponse.from_dict"}
     /\ call.result.method \in {"get_data_counts_by_key", "get_data_counts_by_station"}) =>
        SumOfCounts(call.result.returned) = DataCount(call.method, Response)

====
